---------------------------- MODULE Spec2Model ----------------------------
(***************************************************************************)
(* A model of the hightd node agent: the server-instance lifecycle engine  *)
(* (libs/Server.ts and the /servers handlers), the HTTP file manager       *)
(* (FileManagerRoutes.ts), the SFTP path resolver (libs/SFTP.ts), the      *)
(* authorisation of the control requests, the live events of an instance,  *)
(* the console WebSocket session, the SFTP login and handle tables, the    *)
(* unarchive handler and the log line splitter.                            *)
(*                                                                         *)
(* Strings that the code inspects character by character (paths) are       *)
(* sequences of one-character strings; path functions follow Node's        *)
(* path.posix implementation.                                              *)
(***************************************************************************)
EXTENDS Integers, Sequences, FiniteSets, Bags, TLC

VARIABLES
    servers,    \* Server.servers: the registry, a sequence of instance numbers
    inst,       \* the Server objects ever constructed, by instance number
    dirs,       \* for each server id, whether BASE_SERVER_PATH/id exists on disk
    rt,         \* the container runtime: every container ever created, by number
    tasks,      \* the asynchronous calls in flight, each parked at an await
    waits,      \* container.wait().then continuations registered and not yet run
    bg,         \* fire-and-forget runtime and fs calls (delete does not await them)
    last,       \* the getStatus call that has just returned, with what it saw;
                \* under traced, what the step just taken did and answered
    hist,       \* for each server id, how far create / delete / create has got
    fmReq,      \* the file manager request in flight (None when there is none)
    fmPhase,    \* how far interpretFileManager has got with it
    fmRes,      \* its HTTP response, with the fs calls the handler made
    sftp,       \* the SFTP request answered last, with the fs calls it made
    traced,     \* whether live events, HTTP answers and stdin writes are recorded
    boot,       \* the reconciliation at process start: the rows of the servers
                \* table, the containers listed, and how far the loop has got
    http,       \* the control request handled last: what it carried, what the
                \* remote helper said, the answer and whether the operation ran
    live,       \* one instance's liveListeners, with what each listener was
                \* handed and the events emitted so far
    ses,        \* the console WebSocket session: the closure variables of the
                \* connection handler, the socket and the frames of the last step
    ticks,      \* the status-supervisor callbacks in flight, each at an await
    streams,    \* the follow-logs streams opened for the session and not destroyed
    ssh,        \* the SFTP daemon: the closure variables of each SSH connection
                \* and the two module-level handle tables
    calc        \* a call of a pure helper: what it was given and what it gave

fmVars == <<fmReq, fmPhase, fmRes>>
auxVars == <<ssh, calc>>
conVars == <<http, live, ses, ticks, streams, auxVars>>
bootVars == <<traced, boot, conVars>>
ioVars == <<fmReq, fmPhase, fmRes, sftp, bootVars>>
lifeVars == <<servers, inst, rt, tasks, waits, bg, last, hist, bootVars>>
vars == <<servers, inst, dirs, rt, tasks, waits, bg, last, hist,
          fmReq, fmPhase, fmRes, sftp, traced, boot,
          http, live, ses, ticks, streams, ssh, calc>>

None == "none"

(* ---------------------------------------------------------------------- *)
(* Strings                                                                  *)
(* ---------------------------------------------------------------------- *)

\* String.prototype.startsWith
StartsWith(s, pre) == Len(pre) <= Len(s) /\ SubSeq(s, 1, Len(pre)) = pre

\* p.replace(/^[\\/]+/, '') and p.replace(/^\/+/, ''): drop the leading run of cs
RECURSIVE StripLeading(_, _)
StripLeading(s, cs) ==
    IF s # <<>> /\ s[1] \in cs THEN StripLeading(Tail(s), cs) ELSE s

RECURSIVE StripTrailing(_, _)
StripTrailing(s, cs) ==
    IF s # <<>> /\ s[Len(s)] \in cs
    THEN StripTrailing(SubSeq(s, 1, Len(s) - 1), cs)
    ELSE s

\* String.prototype.trim (the only white space of the alphabet is the blank)
Trim(s) == StripTrailing(StripLeading(s, {" "}), {" "})

\* String.prototype.split on a one-character separator class
RECURSIVE SplitAcc(_, _, _, _)
SplitAcc(s, seps, cur, acc) ==
    IF s = <<>> THEN Append(acc, cur)
    ELSE SplitAcc(Tail(s), seps,
                  IF s[1] \in seps THEN <<>> ELSE Append(cur, s[1]),
                  IF s[1] \in seps THEN Append(acc, cur) ELSE acc)

Split(s, seps) == SplitAcc(s, seps, <<>>, <<>>)

\* Array.prototype.join("/")
RECURSIVE JoinSlash(_)
JoinSlash(segs) ==
    IF segs = <<>> THEN <<>>
    ELSE IF Len(segs) = 1 THEN segs[1]
    ELSE segs[1] \o <<"/">> \o JoinSlash(Tail(segs))

\* s.replace(/\\/g, '/')
ReplaceBackslashes(s) == [i \in 1..Len(s) |-> IF s[i] = "\\" THEN "/" ELSE s[i]]

\* Array.prototype.some(seg => seg === x)
Some(segs, x) == \E i \in 1..Len(segs) : segs[i] = x

RECURSIVE Flatten(_)
Flatten(ss) == IF ss = <<>> THEN <<>> ELSE ss[1] \o Flatten(Tail(ss))

(* ---------------------------------------------------------------------- *)
(* Node path.posix                                                          *)
(* ---------------------------------------------------------------------- *)

DotDot == <<".", ".">>
Dot == <<".">>

\* one turn of the loop of normalizeString: the segments kept so far, after seg
NormStep(res, seg, allowAboveRoot) ==
    IF seg = <<>> \/ seg = Dot THEN res
    ELSE IF seg = DotDot
    THEN IF res # <<>> /\ res[Len(res)] # DotDot THEN SubSeq(res, 1, Len(res) - 1)
         ELSE IF allowAboveRoot THEN Append(res, DotDot)
         ELSE res
    ELSE Append(res, seg)

\* normalizeString(path, allowAboveRoot, '/'): the segments that remain
RECURSIVE NormSegs(_, _, _)
NormSegs(segs, allowAboveRoot, res) ==
    IF segs = <<>> THEN res
    ELSE NormSegs(Tail(segs), allowAboveRoot, NormStep(res, segs[1], allowAboveRoot))

PathIsAbsolute(p) == p # <<>> /\ p[1] = "/"

\* the tail of path.normalize: '.' for nothing left of a relative path, the
\* trailing slash put back, the leading slash of an absolute path
Normalized(segs, abs, trailing) ==
    (IF abs THEN <<"/">> ELSE <<>>)
    \o (IF segs # <<>> THEN JoinSlash(segs) ELSE IF abs THEN <<>> ELSE Dot)
    \o (IF trailing /\ (segs # <<>> \/ ~abs) THEN <<"/">> ELSE <<>>)

\* path.normalize
PathNormalize(p) ==
    IF p = <<>> THEN Dot
    ELSE Normalized(NormSegs(Split(p, {"/"}), ~PathIsAbsolute(p), <<>>),
                    PathIsAbsolute(p), p[Len(p)] = "/")

\* path.join(a, b): the non-empty arguments joined by '/', then normalized
PathJoin(a, b) ==
    IF a = <<>> /\ b = <<>> THEN Dot
    ELSE PathNormalize(IF a = <<>> THEN b
                       ELSE IF b = <<>> THEN a
                       ELSE a \o <<"/">> \o b)

\* path.resolve(base, rel) for an absolute base (right to left until absolute)
PathResolve(base, rel) ==
    LET raw == IF PathIsAbsolute(rel) THEN rel
               ELSE IF rel = <<>> THEN base
               ELSE base \o <<"/">> \o rel
    IN <<"/">> \o JoinSlash(NormSegs(Split(raw, {"/"}), FALSE, <<>>))

\* path.dirname of an absolute, normalized path
PathDirname(p) ==
    LET segs == NormSegs(Split(p, {"/"}), FALSE, <<>>)
    IN IF segs = <<>> THEN <<"/">>
       ELSE <<"/">> \o JoinSlash(SubSeq(segs, 1, Len(segs) - 1))

\* the directory levels of an absolute path
Segs(p) == NormSegs(Split(p, {"/"}), FALSE, <<>>)

IsPrefix(r, a) == Len(r) <= Len(a) /\ SubSeq(a, 1, Len(r)) = r

\* abs is root or lies below it (compared level by level, not as text)
IsInside(abs, root) == PathIsAbsolute(abs) /\ IsPrefix(Segs(root), Segs(abs))

(* ---------------------------------------------------------------------- *)
(* Sandbox path resolver of the file manager                                *)
(* ---------------------------------------------------------------------- *)

\* BASE_SERVER_PATH ('E:/servers' in the source), taken as an absolute directory
BASE_SERVER_PATH == <<"/", "b">>

\* two server ids, one a string prefix of the other
IdS == <<"s">>
IdSS == <<"s", "s">>
ServerIds == {IdS, IdSS}

SandboxRoot(id) == PathJoin(BASE_SERVER_PATH, id)

Thrown == [err |-> TRUE, v |-> <<>>]
Value(v) == [err |-> FALSE, v |-> v]

sanitizeRelative(p) ==
    IF p = <<>> \/ p = <<"/">> \/ p = Dot THEN Value(<<>>)
    ELSE LET rel == Trim(StripLeading(p, {"/", "\\"}))
         IN IF Some(Split(rel, {"/", "\\"}), DotDot) THEN Thrown
            ELSE Value(ReplaceBackslashes(rel))

\* if(!abs.startsWith(root)) throw ...; return abs
StartsWithOrThrow(abs, root) == IF ~StartsWith(abs, root) THEN Thrown ELSE Value(abs)

resolveServerPath(serverId, rel) ==
    StartsWithOrThrow(PathResolve(PathJoin(BASE_SERVER_PATH, serverId), rel),
                      PathResolve(PathJoin(BASE_SERVER_PATH, serverId), <<>>))

\* the two calls every handler makes on a user-supplied path field
ResolveField(serverId, p) ==
    LET rel == sanitizeRelative(p)
    IN IF rel.err THEN [err |-> TRUE, rel |-> <<>>, abs |-> <<>>]
       ELSE LET abs == resolveServerPath(serverId, rel.v)
            IN [err |-> abs.err, rel |-> rel.v, abs |-> abs.v]

(* ---------------------------------------------------------------------- *)
(* File manager handlers: the response and the file-system calls made      *)
(* ---------------------------------------------------------------------- *)

\* fs.stat outcomes: no entry, a file, a directory, a file above 2 MiB
StatKinds == {"none", "file", "dir", "big"}

\* a host path handed to an fs call, with the request field it came from
T(field, abs) == [field |-> field, abs |-> abs]

\* a mutating fs call: rm -rf a, mkdir -p a, write a, rename a -> b
Fx(k, a, b) == [k |-> k, a |-> a, b |-> b]

\* rejected: sanitizeRelative or resolveServerPath threw on a path field
Resp(status, touched, effects, rejected) ==
    [status |-> status, touched |-> touched, effects |-> effects,
     rejected |-> rejected]

\* an exception leaving a handler is answered by handleRequest's catch
InternalError(touched, effects, rejected) == Resp(500, touched, effects, rejected)

\* path.basename of a relative path
PathBasename(rel) ==
    LET segs == Split(StripTrailing(rel, {"/"}), {"/"})
    IN segs[Len(segs)]

\* path.relative(root, abs) for abs inside root
RelativeInside(root, abs) ==
    JoinSlash(SubSeq(Segs(abs), Len(Segs(root)) + 1, Len(Segs(abs))))

\* '/' + sanitizeRelative(path.relative(root, abs)) throws on a '..' segment
ReplyPathThrows(root, abs) ==
    IF IsInside(abs, root) THEN sanitizeRelative(RelativeInside(root, abs)).err
    ELSE TRUE

handleList(body, st) ==
    LET r == ResolveField(body.serverId, body.path)
    IN IF r.err THEN InternalError({}, <<>>, TRUE)
       ELSE IF st # "dir" THEN Resp(404, {T("path", r.abs)}, <<>>, FALSE)
       ELSE Resp(200, {T("path", r.abs)}, <<>>, FALSE)

handleRead(body, st) ==
    IF body.path = <<>> THEN Resp(400, {}, <<>>, FALSE)
    ELSE LET r == ResolveField(body.serverId, body.path)
         IN IF r.err THEN InternalError({}, <<>>, TRUE)
            ELSE IF st = "none" THEN Resp(404, {T("path", r.abs)}, <<>>, FALSE)
            ELSE IF st = "dir" THEN Resp(400, {T("path", r.abs)}, <<>>, FALSE)
            ELSE IF st = "big" THEN Resp(413, {T("path", r.abs)}, <<>>, FALSE)
            ELSE Resp(200, {T("path", r.abs)}, <<>>, FALSE)

handleDownload(body, st) ==
    IF body.path = <<>> THEN Resp(400, {}, <<>>, FALSE)
    ELSE LET r == ResolveField(body.serverId, body.path)
         IN IF r.err THEN InternalError({}, <<>>, TRUE)
            ELSE IF st = "none" THEN Resp(404, {T("path", r.abs)}, <<>>, FALSE)
            ELSE IF st = "dir" THEN Resp(400, {T("path", r.abs)}, <<>>, FALSE)
            ELSE Resp(200, {T("path", r.abs)}, <<>>, FALSE)

\* writeFile on a directory throws; the mkdir of the parent has happened by then
handleWrite(body, st) ==
    IF body.path = <<>> THEN Resp(400, {}, <<>>, FALSE)
    ELSE IF ~body.hasContent THEN Resp(400, {}, <<>>, FALSE)
    ELSE LET r == ResolveField(body.serverId, body.path)
             tch == {T("parent", PathDirname(r.abs)), T("path", r.abs)}
         IN IF r.err THEN InternalError({}, <<>>, TRUE)
            ELSE IF st = "dir"
                 THEN InternalError(tch, <<Fx("mkdir", PathDirname(r.abs), <<>>)>>, FALSE)
            ELSE Resp(200, tch, <<Fx("mkdir", PathDirname(r.abs), <<>>),
                                  Fx("write", r.abs, <<>>)>>, FALSE)

\* fs.rename refuses to put a directory inside itself or over one of its own
\* ancestors
RenameRefused(a, b) ==
    Segs(a) # Segs(b) /\ (IsInside(a, b) \/ IsInside(b, a))

HasSeparator(s) == \E i \in 1..Len(s) : s[i] \in {"/", "\\"}

handleRename(body, st, ioFails) ==
    IF body.path = <<>> \/ body.newName = <<>> THEN Resp(400, {}, <<>>, FALSE)
    ELSE IF HasSeparator(body.newName) THEN Resp(400, {}, <<>>, FALSE)
    ELSE LET r == ResolveField(body.serverId, body.path)
             newAbs == PathJoin(PathDirname(r.abs), body.newName)
             tch == {T("path", r.abs), T("newName", newAbs)}
             fx == <<Fx("rename", r.abs, newAbs)>>
         IN IF r.err THEN InternalError({}, <<>>, TRUE)
            ELSE IF st = "none" THEN Resp(404, {T("path", r.abs)}, <<>>, FALSE)
            ELSE IF ioFails \/ RenameRefused(r.abs, newAbs)
                 THEN Resp(500, tch, <<>>, FALSE)
            ELSE IF ReplyPathThrows(SandboxRoot(body.serverId), newAbs)
                 THEN InternalError(tch, fx, FALSE)
            ELSE Resp(200, tch, fx, FALSE)

handleMkdir(body, ioFails) ==
    IF body.path = <<>> THEN Resp(400, {}, <<>>, FALSE)
    ELSE LET r == ResolveField(body.serverId, body.path)
         IN IF sanitizeRelative(body.path).err THEN InternalError({}, <<>>, TRUE)
            ELSE IF sanitizeRelative(body.path).v = <<>> THEN Resp(400, {}, <<>>, FALSE)
            ELSE IF r.err THEN InternalError({}, <<>>, TRUE)
            ELSE IF ioFails THEN Resp(500, {T("path", r.abs)}, <<>>, FALSE)
            ELSE Resp(200, {T("path", r.abs)}, <<Fx("mkdir", r.abs, <<>>)>>, FALSE)

handleUpload(body, st) ==
    IF body.path = <<>> THEN Resp(400, {}, <<>>, FALSE)
    ELSE LET r == ResolveField(body.serverId, body.path)
             tch == {T("parent", PathDirname(r.abs)), T("path", r.abs)}
         IN IF sanitizeRelative(body.path).err THEN InternalError({}, <<>>, TRUE)
            ELSE IF sanitizeRelative(body.path).v = <<>>
                    \/ body.path[Len(body.path)] = "/"
                 THEN Resp(400, {}, <<>>, FALSE)
            ELSE IF ~body.hasContent THEN Resp(400, {}, <<>>, FALSE)
            ELSE IF body.tooLarge THEN Resp(413, {}, <<>>, FALSE)
            ELSE IF r.err THEN InternalError({}, <<>>, TRUE)
            ELSE IF st = "dir"
                 THEN Resp(500, tch, <<Fx("mkdir", PathDirname(r.abs), <<>>)>>, FALSE)
            ELSE Resp(200, tch, <<Fx("mkdir", PathDirname(r.abs), <<>>),
                                  Fx("write", r.abs, <<>>)>>, FALSE)

handleMove(body, st, stTo, ioFails) ==
    IF body.from = <<>> \/ body.to = <<>> THEN Resp(400, {}, <<>>, FALSE)
    ELSE LET relFrom == sanitizeRelative(body.from)
             relToRaw == sanitizeRelative(body.to)
             absFrom == resolveServerPath(body.serverId, relFrom.v)
             absToCandidate == resolveServerPath(body.serverId, relToRaw.v)
             base == PathBasename(relFrom.v)
             finalRelTo ==
                 IF stTo = "dir"
                 THEN (IF relToRaw.v # <<>> THEN relToRaw.v \o <<"/">> ELSE <<>>) \o base
                 ELSE IF body.to[Len(body.to)] = "/"
                      THEN (IF relToRaw.v # <<>> /\ relToRaw.v[Len(relToRaw.v)] = "/"
                            THEN SubSeq(relToRaw.v, 1, Len(relToRaw.v) - 1)
                            ELSE relToRaw.v) \o <<"/">> \o base
                      ELSE relToRaw.v
             absTo == resolveServerPath(body.serverId, finalRelTo)
             tch1 == {T("from", absFrom.v)}
             tch2 == tch1 \cup {T("to", absToCandidate.v)}
             tch3 == tch2 \cup {T("parent", PathDirname(absTo.v)), T("to", absTo.v)}
         IN IF relFrom.err \/ relToRaw.err \/ absFrom.err
            THEN InternalError({}, <<>>, TRUE)
            ELSE IF st = "none" THEN Resp(404, tch1, <<>>, FALSE)
            ELSE IF absToCandidate.err THEN InternalError(tch1, <<>>, TRUE)
            ELSE IF absTo.err THEN InternalError(tch2, <<>>, TRUE)
            ELSE IF ioFails \/ RenameRefused(absFrom.v, absTo.v)
                 THEN Resp(500, tch3, <<Fx("mkdir", PathDirname(absTo.v), <<>>)>>, FALSE)
            ELSE Resp(200, tch3, <<Fx("mkdir", PathDirname(absTo.v), <<>>),
                                   Fx("rename", absFrom.v, absTo.v)>>, FALSE)

\* the entries of paths[] that resolve, as touched paths
MassTouched(body) ==
    {T("paths", ResolveField(body.serverId, body.paths[i]).abs) :
        i \in {j \in 1..Len(body.paths) : ~ResolveField(body.serverId, body.paths[j]).err}}

MassRejected(body) ==
    \E i \in 1..Len(body.paths) : ResolveField(body.serverId, body.paths[i]).err

\* fs.rm of every entry that resolves, in order
RECURSIVE MassDeleteEffects(_, _)
MassDeleteEffects(serverId, paths) ==
    IF paths = <<>> THEN <<>>
    ELSE LET r == ResolveField(serverId, paths[1])
         IN (IF r.err THEN <<>> ELSE <<Fx("rm", r.abs, <<>>)>>)
            \o MassDeleteEffects(serverId, Tail(paths))

ZipSuffix == <<".", "z", "i", "p">>

\* the name 'archive-' + Date.now()
DefaultZipName == <<"a", "r", "c", "h", "i", "v", "e", "-", "0">>

\* archiveName.replace(/\.zip$/i, '')
StripZipSuffix(name) ==
    LET n == Len(name)
    IN IF n >= 4 /\ name[n - 3] = "." /\ name[n - 2] \in {"z", "Z"}
          /\ name[n - 1] \in {"i", "I"} /\ name[n] \in {"p", "P"}
       THEN SubSeq(name, 1, n - 4)
       ELSE name

finalZipAbs(body) ==
    LET zipName == IF body.archiveName # <<>> THEN StripZipSuffix(body.archiveName)
                   ELSE DefaultZipName
    IN PathJoin(PathJoin(BASE_SERVER_PATH, body.serverId), zipName \o ZipSuffix)

handleMass(body, ioFails) ==
    IF body.paths = <<>> THEN Resp(400, {}, <<>>, FALSE)
    ELSE IF body.action \notin {"delete", "archive"} THEN Resp(400, {}, <<>>, FALSE)
    ELSE IF body.action = "delete"
         THEN Resp(200, MassTouched(body),
                   MassDeleteEffects(body.serverId, body.paths), MassRejected(body))
    ELSE LET zip == finalZipAbs(body)
             tch == MassTouched(body) \cup {T("archiveName", zip)}
             fx == <<Fx("mkdir", PathDirname(zip), <<>>), Fx("write", zip, <<>>)>>
         IN IF ioFails THEN InternalError(tch, <<>>, MassRejected(body))
            ELSE IF ReplyPathThrows(SandboxRoot(body.serverId), zip)
                 THEN InternalError(tch, fx, MassRejected(body))
            ELSE Resp(200, tch, fx, MassRejected(body))

(* ---------------------------------------------------------------------- *)
(* Server instances, the registry and the container runtime                *)
(* ---------------------------------------------------------------------- *)

MaxInst == 2    \* Server objects constructed in a run
MaxCont == 2    \* containers created in a run
MaxTasks == 2   \* asynchronous calls in flight at once
MaxTraced == 1  \* the same, when the steps are traced

Null == 0

\* new Server(id): the field initialisers of the class
NewServer(id) ==
    [id |-> id, container |-> Null, running |-> FALSE, startedAt |-> None,
     stdinStream |-> Null]

Instances == 1..Len(inst)
Containers == 1..Len(rt)

\* Server.getServer: the first registered instance with that id, or null
getServer(id) ==
    IF \E k \in 1..Len(servers) : inst[servers[k]].id = id
    THEN servers[CHOOSE k \in 1..Len(servers) :
                    /\ inst[servers[k]].id = id
                    /\ \A j \in 1..(k - 1) : inst[servers[j]].id # id]
    ELSE Null

\* Array.prototype.indexOf + splice(index, 1)
RemoveFirst(seq, x) ==
    IF \E k \in 1..Len(seq) : seq[k] = x
    THEN LET k == CHOOSE j \in 1..Len(seq) :
                      seq[j] = x /\ \A h \in 1..(j - 1) : seq[h] # x
         IN SubSeq(seq, 1, k - 1) \o SubSeq(seq, k + 1, Len(seq))
    ELSE seq

\* the container name CONTAINER_NAME_PREFIX + id is taken while one exists
NameTaken(id) == \E c \in Containers : rt[c].name = id /\ rt[c].state # "removed"

\* an asynchronous call in flight, suspended at the await named by pc
Task(op, i, pc, c, next) ==
    [op |-> op, i |-> i, id |-> inst[i].id, pc |-> pc, c |-> c, next |-> next,
     cmd |-> <<>>]

InFlight == BagToSet(tasks)
HasFreeSlot == BagCardinality(tasks) < (IF traced THEN MaxTraced ELSE MaxTasks)
Without(t) == tasks (-) SetToBag({t})
With(rest, t) == rest (+) SetToBag({t})

\* what a step did: the method op of instance i ran, called by the handler by
\* (none: a continuation), which answered reply; did lists the live events
\* emitted, the calls made and the error thrown, line is what was written to
\* stdin, ret is how the call ended in this step (nothing: it is suspended)
Quiet == [op |-> "", i |-> Null, status |-> "", ret |-> "", by |-> "", reply |-> "",
          sink |-> FALSE, did |-> <<>>, cmd |-> <<>>, line |-> <<>>]
Returned(i, status, ret) ==
    [Quiet EXCEPT !.op = "getStatus", !.i = i, !.status = status, !.ret = ret]

\* what the instance's handle points at when a method is entered (sink:
\* whether it has a stdin sink then)
Seen(ins, i) ==
    IF ins[i].container = Null THEN "nohandle" ELSE rt[ins[i].container].state

Step(op, i, by, reply, cmd) ==
    [Quiet EXCEPT !.op = op, !.i = i, !.status = Seen(inst, i), !.by = by,
                  !.reply = reply, !.sink = (inst[i].stdinStream # Null),
                  !.cmd = cmd]
Did(tr, what) == [tr EXCEPT !.did = @ \o what]
Ends(tr, ret) == [tr EXCEPT !.ret = ret]
Note(tr) == IF traced THEN tr ELSE Quiet

\* the commands sent to stop and sendCommand: strings, or a value that is no
\* string (NotAString); the empty sequence is a missing or empty command
NL == "\n"
NotAString == <<"number">>
Commands == {<<>>, NotAString, <<"a">>, <<"a", NL>>, <<"a", NL, NL>>}
Cmds == IF traced THEN Commands ELSE {<<"a">>}

\* !cmd || typeof cmd !== 'string'
ValidCommand(cmd) == cmd # <<>> /\ cmd # NotAString

\* a line that always gets a newline appended
CommandLineAppends(cmd) == cmd \o <<NL>>

\* cmd.endsWith('\n') ? cmd : cmd + '\n'
CommandLine(cmd) == IF cmd[Len(cmd)] = NL THEN cmd ELSE cmd \o <<NL>>
Wrote(tr, cmd) == [Did(tr, <<"write">>) EXCEPT !.line = CommandLine(cmd)]

\* container.remove({force: true}) / container.kill() as the runtime performs them
Removed(c) == [rt EXCEPT ![c].state = "removed"]
Killed(c) == IF rt[c].state = "running" THEN [rt EXCEPT ![c].state = "exited"] ELSE rt

\* the field resets of delete(), of the catch block of start() and of the
\* exit continuation
ResetAll(s) == [s EXCEPT !.container = Null, !.running = FALSE,
                         !.startedAt = None, !.stdinStream = Null]
MarkExited(s) == [s EXCEPT !.running = FALSE, !.startedAt = None,
                           !.stdinStream = Null]

(* ---- static create(id), called by CreateServer ------------------------ *)

IsCreate(t) == t.op = "create"

\* the calls of Server.create in flight, as a bag
Pending == [t \in {u \in InFlight : IsCreate(u)} |-> tasks[t]]

CreateServer(id) ==
    /\ HasFreeSlot
    /\ Len(inst) + BagCardinality(Pending) < MaxInst
    /\ tasks' = With(tasks, [op |-> "create", i |-> Null, id |-> id, pc |-> "mkdir",
                             c |-> Null,
                             next |-> IF hist[id] = "deleted" THEN "again" ELSE "",
                             cmd |-> <<>>])
    /\ last' = Quiet
    /\ UNCHANGED <<servers, inst, dirs, rt, waits, bg, hist, ioVars>>

\* fs.mkdir resolves and the instance is pushed
CreateMkdir(t) ==
    /\ t.op = "create" /\ t.pc = "mkdir"
    /\ dirs' = [dirs EXCEPT ![t.id] = TRUE]
    /\ inst' = Append(inst, NewServer(t.id))
    /\ servers' = Append(servers, Len(inst) + 1)
    /\ hist' = [hist EXCEPT ![t.id] =
                   IF t.next = "again" THEN "recreated"
                   ELSE IF @ = "fresh" THEN "created" ELSE @]
    /\ tasks' = Without(t)
    /\ last' = Quiet
    /\ UNCHANGED <<rt, waits, bg, ioVars>>

(* ---- delete(), called by DeleteServer --------------------------------- *)

\* what delete() leaves running behind it: kill(), container.remove, fs.rm
Bg(k, c, id) == [k |-> k, c |-> c, id |-> id]

DeleteBackground(s) ==
    (IF s.container # Null
     THEN {Bg("kill", s.container, s.id), Bg("remove", s.container, s.id)}
     ELSE {}) \cup {Bg("rm", Null, s.id)}

DeleteServer(id) ==
    /\ getServer(id) # Null
    /\ LET i == getServer(id)
       IN /\ bg' = bg \cup DeleteBackground(inst[i])
          /\ inst' = [inst EXCEPT ![i] = ResetAll(@)]
          /\ servers' = RemoveFirst(servers, i)
    /\ hist' = [hist EXCEPT ![id] = "deleted"]
    /\ last' = Quiet
    /\ UNCHANGED <<dirs, rt, tasks, waits, ioVars>>

BgKill(c) ==
    /\ Bg("kill", c, rt[c].name) \in bg
    /\ rt' = Killed(c)
    /\ bg' = bg \ {Bg("kill", c, rt[c].name)}
    /\ last' = Quiet
    /\ UNCHANGED <<servers, inst, dirs, tasks, waits, hist, ioVars>>

BgRemove(c) ==
    /\ Bg("remove", c, rt[c].name) \in bg
    /\ \E ok \in BOOLEAN : rt' = IF ok THEN Removed(c) ELSE rt
    /\ bg' = bg \ {Bg("remove", c, rt[c].name)}
    /\ last' = Quiet
    /\ UNCHANGED <<servers, inst, dirs, tasks, waits, hist, ioVars>>

BgRm(id) ==
    /\ Bg("rm", Null, id) \in bg
    /\ dirs' = [dirs EXCEPT ![id] = FALSE]
    /\ bg' = bg \ {Bg("rm", Null, id)}
    /\ last' = Quiet
    /\ UNCHANGED <<servers, inst, rt, tasks, waits, hist, ioVars>>

(* ---- start(data) ------------------------------------------------------ *)

\* the call of start() up to its first await: the removal of a pre-existing
\* container, or else the field resets and fs.mkdir
\* (rest: the other calls in flight)
BeginStart(rest, i, ins, tr) ==
    IF ins[i].container # Null
    THEN /\ tasks' = With(rest, Task("start", i, "rmOld", ins[i].container, ""))
         /\ inst' = ins
         /\ last' = Note(tr)
    ELSE /\ tasks' = With(rest, Task("start", i, "mkdir", Null, ""))
         /\ inst' = [ins EXCEPT ![i].startedAt = None, ![i].running = FALSE]
         /\ last' = Note(Did(tr, <<"emit status">>))

\* the catch block of start(): force-remove this.container if there is one,
\* then reset the fields and rethrow (stage: the awaited call that rejected)
EnterCatch(rest, i, ins, stage) ==
    IF ins[i].container # Null
    THEN /\ tasks' = With(rest, Task("start", i, "catchRm", ins[i].container, stage))
         /\ inst' = ins
         /\ last' = Note(Did(Step("start", i, "", "", <<>>), <<"emit error">>))
    ELSE /\ tasks' = rest
         /\ inst' = [ins EXCEPT ![i] = ResetAll(@)]
         /\ last' = Note(Ends(Did(Step("start", i, "", "", <<>>), <<"emit error">>),
                              "raised"))

\* the awaited removal of the pre-existing container ends (try/catch/finally)
StartRmOld(t) ==
    /\ t.op = "start" /\ t.pc = "rmOld"
    /\ \E ok \in BOOLEAN : rt' = IF ok THEN Removed(t.c) ELSE rt
    /\ inst' = [inst EXCEPT ![t.i].container = Null,
                             ![t.i].startedAt = None,
                             ![t.i].running = FALSE]
    /\ tasks' = With(Without(t), Task("start", t.i, "mkdir", Null, ""))
    /\ last' = Quiet
    /\ UNCHANGED <<servers, dirs, waits, bg, hist, ioVars>>

\* fs.mkdir(serverPath, recursive) ends, the templates are written, pull is called
StartMkdir(t) ==
    /\ t.op = "start" /\ t.pc = "mkdir"
    /\ dirs' = [dirs EXCEPT ![t.id] = TRUE]
    /\ tasks' = With(Without(t), Task("start", t.i, "pull", Null, ""))
    /\ last' = Quiet
    /\ UNCHANGED <<servers, inst, rt, waits, bg, hist, ioVars>>

\* docker.pull, followProgress and docker.createContainer end, one awaited after
\* the other with nothing assigned in between: this.container = newContainer and
\* container.start is called, or one of them rejected
StartCreate(t) ==
    /\ t.op = "start" /\ t.pc = "pull"
    /\ \/ /\ ~NameTaken(t.id)
          /\ Len(rt) < MaxCont
          /\ rt' = Append(rt, [name |-> t.id, state |-> "created"])
          /\ inst' = [inst EXCEPT ![t.i].container = Len(rt) + 1]
          /\ tasks' = With(Without(t), Task("start", t.i, "startC", Len(rt) + 1, ""))
          /\ last' = Quiet
       \/ /\ EnterCatch(Without(t), t.i, inst, "create")
          /\ UNCHANGED rt
    /\ UNCHANGED <<servers, dirs, waits, bg, hist, ioVars>>

\* container.start() ends; the polling loop begins
StartContainer(t) ==
    /\ t.op = "start" /\ t.pc = "startC"
    /\ \/ /\ rt[t.c].state = "created"
          /\ rt' = [rt EXCEPT ![t.c].state = "running"]
          /\ tasks' = With(Without(t), Task("start", t.i, "poll", Null, ""))
          /\ last' = Quiet
          /\ UNCHANGED inst
       \/ /\ EnterCatch(Without(t), t.i, inst, "startC")
          /\ UNCHANGED rt
    /\ UNCHANGED <<servers, dirs, waits, bg, hist, ioVars>>

\* the polling loop ends (running seen, or no container, or 15 attempts), the
\* flags are set and _attachAfterStart is entered
StartPoll(t) ==
    /\ t.op = "start" /\ t.pc = "poll"
    /\ LET i == t.i
           isRunning == inst[i].container # Null
                        /\ rt[inst[i].container].state = "running"
       IN /\ inst' = IF isRunning
                     THEN [inst EXCEPT ![i].running = TRUE, ![i].startedAt = "now"]
                     ELSE inst
          /\ tasks' = IF inst[i].container = Null THEN Without(t)
                      ELSE With(Without(t),
                                Task("start", i, "attach", inst[i].container, ""))
    /\ last' = Quiet
    /\ UNCHANGED <<servers, dirs, rt, waits, bg, hist, ioVars>>

\* container.attach ends inside _attachAfterStart: the stdin sink is set and the
\* exit continuation registered on this.container, or the error reaches the catch
StartAttach(t) ==
    /\ t.op = "start" /\ t.pc = "attach"
    /\ LET i == t.i
           ins == [inst EXCEPT ![i].stdinStream = t.c]
       IN \/ /\ rt[t.c].state # "removed"
             /\ inst[i].container # Null
             /\ inst' = ins
             /\ waits' = waits \cup {<<i, inst[i].container>>}
             /\ tasks' = Without(t)
             /\ last' = Note(Ends(Step("start", i, "", "", <<>>), "returned"))
          \/ /\ rt[t.c].state # "removed"
             /\ inst[i].container = Null
             /\ EnterCatch(Without(t), i, ins, "attach")
             /\ UNCHANGED waits
          \/ /\ EnterCatch(Without(t), i, inst, "attach")
             /\ UNCHANGED waits
    /\ UNCHANGED <<servers, dirs, rt, bg, hist, ioVars>>

\* the removal awaited in the catch block ends; the fields are reset
StartCatchRm(t) ==
    /\ t.op = "start" /\ t.pc = "catchRm"
    /\ \E ok \in BOOLEAN : rt' = IF ok THEN Removed(t.c) ELSE rt
    /\ inst' = [inst EXCEPT ![t.i] = ResetAll(@)]
    /\ tasks' = Without(t)
    /\ last' = Note(Ends(Step("start", t.i, "", "", <<>>), "raised"))
    /\ UNCHANGED <<servers, dirs, waits, bg, hist, ioVars>>

(* ---- stop, kill, sendCommand, restart --------------------------------- *)

\* what follows once stop() or kill() has returned: restart goes on to start()
Continue(rest, i, ins, next, tr) ==
    IF next = "start" THEN BeginStart(rest, i, ins, tr)
    ELSE tasks' = rest /\ inst' = ins /\ last' = Note(Ends(tr, "returned"))

\* kill(): nothing without a container, else the status event is emitted and
\* container.kill() is awaited
BeginKill(rest, i, ins, next, tr) ==
    IF ins[i].container = Null THEN Continue(rest, i, ins, next, tr)
    ELSE /\ tasks' = With(rest, Task("kill", i, "kill", ins[i].container, next))
         /\ inst' = ins
         /\ last' = Note(Did(tr, <<"emit status", "call container.kill">>))

\* a stop() that lets the failure of sendCommand go without kill()
WriteCommandNoKill(rest, i, ins, op, next, ok, tr) ==
    IF ok \/ op = "stop" THEN Continue(rest, i, ins, next, tr)
    ELSE tasks' = rest /\ inst' = ins /\ last' = Note(Ends(tr, "raised"))

\* how sendCommand ends once it has written (ok) or thrown: stop() answers a
\* throw with an error event and kill(), a bare sendCommand propagates it
WriteCommand(rest, i, ins, op, next, ok, tr) ==
    IF ok THEN Continue(rest, i, ins, next, tr)
    ELSE IF op = "stop"
    THEN BeginKill(rest, i, ins, next, Did(tr, <<"emit error", "call kill">>))
    ELSE tasks' = rest /\ inst' = ins /\ last' = Note(Ends(tr, "raised"))

\* stdinStream.write(line) in its try block
WriteLine(rest, i, ins, op, next, cmd, ok, tr) ==
    IF ok THEN WriteCommand(rest, i, ins, op, next, TRUE, Wrote(tr, cmd))
    ELSE WriteCommand(rest, i, ins, op, next, FALSE,
                      Did(tr, <<"throw Falha ao escrever no STDIN">>))

\* stop() and sendCommand() up to the first await: stop returns at once without
\* a container; sendCommand throws on an invalid command and without a
\* container, and awaits _reattach without a stdin sink
BeginSend(rest, i, ins, op, next, cmd, ok, tr0) ==
    IF op = "stop" /\ ins[i].container = Null THEN Continue(rest, i, ins, next, tr0)
    ELSE LET tr == IF op = "stop"
                   THEN Did(tr0, <<"emit status", "call sendCommand">>)
                   ELSE tr0
         IN IF ~ValidCommand(cmd)
            THEN WriteCommand(rest, i, ins, op, next, FALSE,
                              Did(tr, <<"throw Comando invalido">>))
            ELSE IF ins[i].container = Null
            THEN WriteCommand(rest, i, ins, op, next, FALSE,
                              Did(tr, <<"throw Container inexistente">>))
            ELSE IF ins[i].stdinStream = Null
            THEN /\ tasks' = With(rest, [Task(op, i, "reattach", ins[i].container, next)
                                            EXCEPT !.cmd = cmd])
                 /\ inst' = ins
                 /\ last' = Note(Did(tr, <<"call _reattach">>))
            ELSE WriteLine(rest, i, ins, op, next, cmd, ok, tr)

Actions == {"start", "restart", "stop", "kill", "command"}

\* SendActionServer: the instance is looked up, the permission is granted, a
\* stop or command without a command is answered 400, else the method is called
\* and not awaited and {status: 'success'} is answered
SendActionServer(id, action) ==
    /\ getServer(id) # Null
    /\ HasFreeSlot
    /\ LET i == getServer(id)
           tr == Step(action, i, "SendActionServer", "success", <<>>)
       IN \E ok \in BOOLEAN, cmd \in Cmds :
            LET trc == [tr EXCEPT !.cmd = cmd]
            IN IF action = "start" THEN BeginStart(tasks, i, inst, tr)
               ELSE IF action = "restart"
                    THEN IF inst[i].container = Null THEN BeginStart(tasks, i, inst, tr)
                         ELSE BeginSend(tasks, i, inst, "stop", "start", cmd, ok,
                                        Did(trc, <<"emit status", "call stop">>))
               ELSE IF action = "kill" THEN BeginKill(tasks, i, inst, "", tr)
               ELSE IF cmd = <<>>
                    THEN /\ last' = Note([trc EXCEPT !.op = "", !.reply = "400"])
                         /\ UNCHANGED <<tasks, inst>>
               ELSE IF action = "stop"
                    THEN BeginSend(tasks, i, inst, "stop", "", cmd, ok, trc)
               ELSE BeginSend(tasks, i, inst, "command", "", cmd, ok, trc)
    /\ UNCHANGED <<servers, dirs, rt, waits, bg, hist, ioVars>>

\* the attach awaited by _reattach ends (its errors are swallowed); sendCommand
\* throws if there is still no sink, else writes
SendReattach(t) ==
    /\ t.pc = "reattach"
    /\ LET i == t.i
           tr == Step(t.op, i, "", "", t.cmd)
       IN \E attached \in BOOLEAN, ok \in BOOLEAN :
            /\ attached => rt[t.c].state # "removed"
            /\ LET ins == IF attached
                          THEN [inst EXCEPT ![i].stdinStream = t.c]
                          ELSE inst
               IN IF ins[i].stdinStream = Null
                  THEN ~ok /\ WriteCommand(Without(t), i, ins, t.op, t.next, FALSE,
                                           Did(tr, <<"throw STDIN indisponivel">>))
                  ELSE WriteLine(Without(t), i, ins, t.op, t.next, t.cmd, ok, tr)
    /\ UNCHANGED <<servers, dirs, rt, waits, bg, hist, ioVars>>

\* container.kill() ends (its error is swallowed)
KillDone(t) ==
    /\ t.pc = "kill"
    /\ rt' = Killed(t.c)
    /\ Continue(Without(t), t.i, inst, t.next, Step("kill", t.i, "", "", <<>>))
    /\ UNCHANGED <<servers, dirs, waits, bg, hist, ioVars>>

(* ---- getStatus() ------------------------------------------------------ *)

\* getStatus with a catch block that keeps the handle after a failed inspect
getStatusKeepsHandle(s, status) ==
    IF status = "running"
    THEN IF ~s.running
         THEN [s EXCEPT !.running = TRUE,
                        !.startedAt = IF s.startedAt = None THEN "rt" ELSE @]
         ELSE s
    ELSE [s EXCEPT !.running = FALSE]

\* the body of getStatus after container.inspect() has settled
\* (status "fail": inspect rejected)
getStatusSync(s, status) ==
    IF status = "running"
    THEN IF ~s.running
         THEN [s EXCEPT !.running = TRUE,
                        !.startedAt = IF s.startedAt = None THEN "rt" ELSE @]
         ELSE s
    ELSE IF status = "fail"
    THEN [s EXCEPT !.running = FALSE, !.container = Null]
    ELSE [s EXCEPT !.running = FALSE]

getStatusResult(status) == IF status = "running" THEN "running" ELSE "stopped"

\* the handlers that call getStatus (one is followed when calls are traced)
StatusHandlers == IF traced THEN {"GetServerStatus", "GetServerUsage"} ELSE {""}

\* what the handler puts in its answer for the value v of getStatus():
\* GetServerUsage sends the awaited string; GetServerStatus sends the promise
\* itself, which JSON serialises as an empty object
Sent(by, v) ==
    IF by = "GetServerUsage" THEN v
    ELSE IF by = "GetServerStatus" THEN "{}"
    ELSE ""

\* GetServerStatus / GetServerUsage: the instance is looked up in the registry and
\* getStatus() is called: without a container it returns at once, else inspect
\* is awaited
GetStatusCall(id) ==
    /\ getServer(id) # Null
    /\ LET i == getServer(id)
       IN \E by \in StatusHandlers :
          IF inst[i].container = Null
          THEN /\ inst' = [inst EXCEPT ![i].running = FALSE]
               /\ last' = [Returned(i, "nohandle", "stopped") EXCEPT
                              !.by = by, !.reply = Sent(by, "stopped")]
               /\ UNCHANGED tasks
          ELSE /\ HasFreeSlot
               /\ tasks' = With(tasks, Task("getStatus", i, "inspect", inst[i].container, by))
               /\ last' = Note([Step("getStatus", i, by, "", <<>>) EXCEPT
                                   !.reply = IF by = "GetServerStatus"
                                             THEN Sent(by, "") ELSE ""])
               /\ UNCHANGED inst
    /\ UNCHANGED <<servers, dirs, rt, waits, bg, hist, ioVars>>

\* what container.inspect() can answer for container c
InspectOutcomes(c) ==
    IF rt[c].state = "removed" THEN {"fail"} ELSE {rt[c].state, "fail"}

GetStatusReturn(t) ==
    /\ t.op = "getStatus" /\ t.pc = "inspect"
    /\ \E status \in InspectOutcomes(t.c) :
          /\ inst' = [inst EXCEPT ![t.i] = getStatusSync(@, status)]
          /\ last' = [Returned(t.i, status, getStatusResult(status)) EXCEPT
                         !.reply = IF t.next = "GetServerUsage"
                                   THEN Sent(t.next, getStatusResult(status)) ELSE ""]
    /\ tasks' = Without(t)
    /\ UNCHANGED <<servers, dirs, rt, waits, bg, hist, ioVars>>

(* ---- the container and its exit continuation -------------------------- *)

\* the process in the container ends (by itself or on the stop command)
ContainerExit(c) ==
    /\ c \in Containers
    /\ rt[c].state = "running"
    /\ rt' = [rt EXCEPT ![c].state = "exited"]
    /\ last' = Quiet
    /\ UNCHANGED <<servers, inst, dirs, tasks, waits, bg, hist, ioVars>>

\* container.wait() settles: .then marks the instance stopped, .catch does nothing
WaitSettles(i, c) ==
    /\ <<i, c>> \in waits
    /\ \/ /\ rt[c].state \in {"exited", "removed"}
          /\ inst' = [inst EXCEPT ![i] = MarkExited(@)]
       \/ /\ rt[c].state = "removed"
          /\ UNCHANGED inst
    /\ waits' = waits \ {<<i, c>>}
    /\ last' = Quiet
    /\ UNCHANGED <<servers, dirs, rt, tasks, bg, hist, ioVars>>

(* ---- static start(): reconciliation at process start ------------------ *)

\* the container of the listing snap (the state of each container when
\* listContainers answered) whose name is CONTAINER_NAME_PREFIX + id, or null
Found(snap, id) ==
    IF \E c \in 1..Len(snap) : rt[c].name = id /\ snap[c] # "removed"
    THEN CHOOSE c \in 1..Len(snap) : rt[c].name = id /\ snap[c] # "removed"
    ELSE Null

\* an adoption that takes every container found for a running one
AdoptedAsRunning(id, c, state) ==
    IF c = Null THEN NewServer(id)
    ELSE [NewServer(id) EXCEPT !.container = c, !.running = TRUE]

\* new Server(id) with the handle of the container found and, if the listing
\* says it runs, running = true
Adopted(id, c, state) ==
    IF c = Null THEN NewServer(id)
    ELSE [NewServer(id) EXCEPT !.container = c, !.running = (state = "running")]

BootIdle == [pc |-> "done", k |-> 0, i |-> Null, rows |-> <<>>, snap |-> <<>>]

\* the for loop over the rows from row k on, up to its next await (inspect of a
\* running container) or its end; a row without a running container is pushed
\* at once
RECURSIVE BootLoop(_, _, _, _)
BootLoop(k, ins, regs, snap) ==
    IF k > Len(boot.rows)
    THEN [pc |-> "done", k |-> k, i |-> Null, inst |-> ins, servers |-> regs]
    ELSE LET id == boot.rows[k]
             c == Found(snap, id)
             s == Adopted(id, c, IF c = Null THEN "" ELSE snap[c])
         IN IF s.running
            THEN [pc |-> "inspect", k |-> k, i |-> Len(ins) + 1,
                  inst |-> Append(ins, s), servers |-> regs]
            ELSE BootLoop(k + 1, Append(ins, s), Append(regs, Len(ins) + 1), snap)

\* the loop goes on from row k
BootGoesOn(k, ins, regs, snap) ==
    LET r == BootLoop(k, ins, regs, snap)
    IN /\ inst' = r.inst
       /\ servers' = r.servers
       /\ boot' = [boot EXCEPT !.pc = r.pc, !.k = r.k, !.i = r.i, !.snap = snap]

\* ServerModel.getAll() resolves
BootGetAll ==
    /\ boot.pc = "getAll"
    /\ boot' = [boot EXCEPT !.pc = "list"]
    /\ last' = Quiet
    /\ UNCHANGED <<servers, inst, dirs, rt, tasks, waits, bg, hist, fmVars, sftp, traced, conVars>>

\* docker.listContainers({all: true}) resolves and the loop begins
BootList ==
    /\ boot.pc = "list"
    /\ BootGoesOn(1, inst, servers, [c \in 1..Len(rt) |-> rt[c].state])
    /\ last' = Quiet
    /\ UNCHANGED <<dirs, rt, tasks, waits, bg, hist, fmVars, sftp, traced, conVars>>

\* server.container.inspect() settles: startedAt is taken from StartedAt, or is
\* Date.now() when it is missing, unparsable or inspect rejected
BootInspect ==
    /\ boot.pc = "inspect"
    /\ \E at \in {"rt", "now"} :
          /\ (at = "rt") => rt[inst[boot.i].container].state # "removed"
          /\ inst' = [inst EXCEPT ![boot.i].startedAt = at]
    /\ boot' = [boot EXCEPT !.pc = "reattach"]
    /\ last' = Quiet
    /\ UNCHANGED <<servers, dirs, rt, tasks, waits, bg, hist, fmVars, sftp, traced, conVars>>

\* the attach awaited by server._reattach() settles, the instance is pushed and
\* the loop goes on with the next row
BootReattach ==
    /\ boot.pc = "reattach"
    /\ LET i == boot.i
           c == inst[i].container
       IN \E attached \in BOOLEAN :
            /\ attached => rt[c].state # "removed"
            /\ BootGoesOn(boot.k + 1,
                          IF attached THEN [inst EXCEPT ![i].stdinStream = c] ELSE inst,
                          Append(servers, i), boot.snap)
    /\ last' = Quiet
    /\ UNCHANGED <<dirs, rt, tasks, waits, bg, hist, fmVars, sftp, traced, conVars>>

(* ---------------------------------------------------------------------- *)
(* The file manager: interpretFileManager and the directories on disk      *)
(* ---------------------------------------------------------------------- *)

MaxTokens == 3   \* pieces a request path is assembled from
MaxPaths == 2    \* entries of paths[] in a mass request

\* the pieces of the paths a client sends
Tokens == {<<"/">>, <<"\\">>, DotDot, Dot, <<" ">>, <<"/", "b", "/">>, IdS, IdSS}

PathsUpTo(n) == {Flatten(ts) : ts \in UNION {[1..k -> Tokens] : k \in 0..n}}
PathInputs == PathsUpTo(MaxTokens)
ShortPaths == PathsUpTo(1)
NewNames == {<<>>, <<"n">>, DotDot, <<"/">>}
ArchiveNames ==
    {<<>>, <<"a">>, <<"a">> \o ZipSuffix, <<".", ".", "/", "x">>, <<"d", "/", "z">>}

EmptyBody ==
    [serverId |-> <<>>, path |-> <<>>, newName |-> <<>>, from |-> <<>>, to |-> <<>>,
     paths |-> <<>>, action |-> "", archiveName |-> <<>>, hasContent |-> FALSE,
     tooLarge |-> FALSE]

FmOps == {"list", "read", "write", "rename", "download", "mass", "mkdir", "move",
          "upload", "other"}

\* the request bodies sent to filemanager/<op>
Bodies(op) ==
    IF op \in {"list", "read", "download", "mkdir"}
    THEN {[EmptyBody EXCEPT !.serverId = id, !.path = p] :
             id \in ServerIds, p \in PathInputs}
    ELSE IF op = "write"
    THEN {[EmptyBody EXCEPT !.serverId = id, !.path = p, !.hasContent = h] :
             id \in ServerIds, p \in PathInputs, h \in BOOLEAN}
    ELSE IF op = "upload"
    THEN {[EmptyBody EXCEPT !.serverId = id, !.path = p, !.hasContent = h[1],
                            !.tooLarge = h[2]] :
             id \in ServerIds, p \in PathInputs,
             h \in {<<FALSE, FALSE>>, <<TRUE, FALSE>>, <<TRUE, TRUE>>}}
    ELSE IF op = "rename"
    THEN {[EmptyBody EXCEPT !.serverId = id, !.path = p, !.newName = n] :
             id \in ServerIds, p \in ShortPaths, n \in NewNames}
    ELSE IF op = "move"
    THEN {[EmptyBody EXCEPT !.serverId = id, !.from = p, !.to = q] :
             id \in ServerIds, p \in ShortPaths, q \in PathsUpTo(2)}
    ELSE IF op = "mass"
    THEN {[EmptyBody EXCEPT !.serverId = id, !.paths = ps, !.action = a[1],
                            !.archiveName = a[2]] :
             id \in ServerIds,
             ps \in UNION {[1..k -> ShortPaths] : k \in 0..MaxPaths},
             a \in ({"delete", "x"} \X {<<>>}) \cup ({"archive"} \X ArchiveNames)}
    ELSE {[EmptyBody EXCEPT !.serverId = id] : id \in ServerIds}

\* what fs.stat can answer for a host path: the sandbox roots are as dirs says,
\* nothing exists below a missing root, anything else is unknown
StatOf(abs) ==
    IF IsInside(BASE_SERVER_PATH, abs) THEN {"dir"}
    ELSE IF \E id \in ServerIds : Segs(abs) = Segs(SandboxRoot(id))
    THEN {IF dirs[CHOOSE id \in ServerIds : Segs(abs) = Segs(SandboxRoot(id))]
          THEN "dir" ELSE "none"}
    ELSE IF \E id \in ServerIds : IsInside(abs, SandboxRoot(id)) /\ ~dirs[id]
    THEN {"none"}
    ELSE StatKinds

StatAt(serverId, p) ==
    LET r == ResolveField(serverId, p)
    IN IF r.err THEN {"none"} ELSE StatOf(r.abs)

\* the switch of interpretFileManager, with every outcome of the fs calls
HandlerResults(op, body) ==
    IF op = "list" THEN {handleList(body, st) : st \in StatAt(body.serverId, body.path)}
    ELSE IF op = "read"
    THEN {handleRead(body, st) : st \in StatAt(body.serverId, body.path)}
    ELSE IF op = "write"
    THEN {handleWrite(body, st) : st \in StatAt(body.serverId, body.path)}
    ELSE IF op = "rename"
    THEN {handleRename(body, st, io) :
             st \in StatAt(body.serverId, body.path), io \in BOOLEAN}
    ELSE IF op = "download"
    THEN {handleDownload(body, st) : st \in StatAt(body.serverId, body.path)}
    ELSE IF op = "mass" THEN {handleMass(body, io) : io \in BOOLEAN}
    ELSE IF op = "mkdir" THEN {handleMkdir(body, io) : io \in BOOLEAN}
    ELSE IF op = "move"
    THEN {handleMove(body, st, stTo, io) :
             st \in StatAt(body.serverId, body.from),
             stTo \in StatAt(body.serverId, body.to), io \in BOOLEAN}
    ELSE IF op = "upload"
    THEN {handleUpload(body, st) : st \in StatAt(body.serverId, body.path)}
    ELSE {Resp(404, {}, <<>>, FALSE)}

\* a sandbox root carried along by rename a -> b
MovedTo(d, id, a, b) ==
    \E from \in ServerIds :
        /\ d[from]
        /\ IsInside(SandboxRoot(from), a)
        /\ Segs(SandboxRoot(id)) =
              Segs(b) \o SubSeq(Segs(SandboxRoot(from)), Len(Segs(a)) + 1,
                                Len(Segs(SandboxRoot(from))))

\* what one mutating fs call does to the sandbox roots
ApplyFx(d, fx) ==
    IF fx.k = "rm"
    THEN [id \in ServerIds |-> IF IsInside(SandboxRoot(id), fx.a) THEN FALSE ELSE d[id]]
    ELSE IF fx.k = "mkdir"
    THEN [id \in ServerIds |-> IF IsInside(fx.a, SandboxRoot(id)) THEN TRUE ELSE d[id]]
    ELSE IF fx.k = "rename"
    THEN [id \in ServerIds |->
             IF MovedTo(d, id, fx.a, fx.b) THEN TRUE
             ELSE IF IsInside(SandboxRoot(id), fx.a) THEN FALSE
             ELSE d[id]]
    ELSE d

RECURSIVE ApplyAll(_, _)
ApplyAll(d, fxs) ==
    IF fxs = <<>> THEN d ELSE ApplyAll(ApplyFx(d, fxs[1]), Tail(fxs))

NoRequest == [op |-> "", body |-> EmptyBody]
NoResp == Resp(0, {}, <<>>, FALSE)

\* a request arrives; validateAuth answers 400 at once or ensurePermission is awaited
FmRequest(op, body, valid) ==
    /\ fmPhase = "idle"
    /\ fmReq' = [op |-> op, body |-> body]
    /\ IF valid
       THEN fmPhase' = "perm" /\ UNCHANGED fmRes
       ELSE fmPhase' = "done" /\ fmRes' = Resp(400, {}, <<>>, FALSE)
    /\ UNCHANGED <<lifeVars, dirs, sftp>>

\* ensurePermission settles: 403, or the handler runs to its answer
FmPermission ==
    /\ fmPhase = "perm"
    /\ \E perm \in BOOLEAN :
          IF getServer(fmReq.body.serverId) = Null \/ ~perm
          THEN fmRes' = Resp(403, {}, <<>>, FALSE) /\ UNCHANGED dirs
          ELSE \E r \in HandlerResults(fmReq.op, fmReq.body) :
                  /\ fmRes' = r
                  /\ dirs' = ApplyAll(dirs, r.effects)
    /\ fmPhase' = "done"
    /\ UNCHANGED <<lifeVars, fmReq, sftp>>

\* the response has been sent
FmReply ==
    /\ fmPhase = "done"
    /\ fmPhase' = "idle"
    /\ fmReq' = NoRequest
    /\ fmRes' = NoResp
    /\ UNCHANGED <<lifeVars, dirs, sftp>>

(* ---------------------------------------------------------------------- *)
(* SFTP: normalize and the request handlers of an authenticated session    *)
(* ---------------------------------------------------------------------- *)

Letters ==
    {"a", "b", "c", "d", "e", "f", "g", "h", "i", "j", "k", "l", "m", "n", "o", "p",
     "q", "r", "s", "t", "u", "v", "w", "x", "y", "z", "A", "B", "C", "D", "E", "F",
     "G", "H", "I", "J", "K", "L", "M", "N", "O", "P", "Q", "R", "S", "T", "U", "V",
     "W", "X", "Y", "Z"}

\* /^(?:[a-zA-Z]:\\|\\\\|[a-zA-Z]:\/)/.test(p)
isOsAbsolute(p) ==
    \/ Len(p) >= 3 /\ p[1] \in Letters /\ p[2] = ":" /\ p[3] \in {"\\", "/"}
    \/ Len(p) >= 2 /\ p[1] = "\\" /\ p[2] = "\\"

normalize(rootDir, p) ==
    IF p = <<>> \/ p = Dot \/ p = <<"/">> THEN Value(rootDir)
    ELSE IF p = rootDir \/ p = rootDir \o <<"/">> \/ p = rootDir \o <<"/", ".">>
    THEN Value(rootDir)
    ELSE IF StartsWith(p, <<"/">>)
    THEN IF StripLeading(p, {"/"}) = <<>> THEN Value(rootDir)
         ELSE StartsWithOrThrow(
                  PathNormalize(PathJoin(rootDir, StripLeading(p, {"/"}))), rootDir)
    ELSE IF isOsAbsolute(p) \/ PathIsAbsolute(p)
    THEN StartsWithOrThrow(PathNormalize(p), rootDir)
    ELSE StartsWithOrThrow(
             PathNormalize(PathJoin(rootDir, StripLeading(p, {"/"}))), rootDir)

\* the paths an SFTP client sends
SftpPaths == PathInputs
SftpTargets == {<<"/">> \o p : p \in ShortPaths}

SftpIdle == [sid |-> <<>>, op |-> "", status |-> "", touched |-> {}]
Answer(sid, op, status, touched) ==
    [sid |-> sid, op |-> op, status |-> status, touched |-> touched]

\* the mutating fs call of kind k on abs ("": the handler only reads)
PathFx(k, abs) == IF k = "" THEN <<>> ELSE <<Fx(k, abs, <<>>)>>

\* try { <fs call>(normalize(p)); <answer> } catch { FAILURE }
OnPath(sid, op, p, answer, k) ==
    LET n == normalize(SandboxRoot(sid), p)
    IN /\ IF n.err
          THEN sftp' = Answer(sid, op, "FAILURE", {}) /\ UNCHANGED dirs
          ELSE \E ok \in BOOLEAN :
                  IF ok
                  THEN /\ sftp' = Answer(sid, op, answer, {n.v})
                       /\ dirs' = ApplyAll(dirs, PathFx(k, n.v))
                  ELSE /\ sftp' = Answer(sid, op, "FAILURE", {n.v})
                       /\ UNCHANGED dirs
       /\ UNCHANGED <<lifeVars, fmVars>>


\* REALPATH answers NAME whether or not statSync finds the path
SftpRealpath(sid, p) ==
    LET n == normalize(SandboxRoot(sid), p)
    IN /\ sftp' = IF n.err THEN Answer(sid, "REALPATH", "FAILURE", {})
                  ELSE Answer(sid, "REALPATH", "NAME", {n.v})
       /\ UNCHANGED <<lifeVars, dirs, fmVars>>

SftpStat(sid, p) == OnPath(sid, "STAT", p, "ATTRS", "")
SftpLstat(sid, p) == OnPath(sid, "LSTAT", p, "ATTRS", "")
SftpOpendir(sid, p) == OnPath(sid, "OPENDIR", p, "HANDLE", "")
SftpRemove(sid, p) == OnPath(sid, "REMOVE", p, "OK", "unlink")
SftpMkdir(sid, p) == OnPath(sid, "MKDIR", p, "OK", "mkdir")
SftpRmdir(sid, p) == OnPath(sid, "RMDIR", p, "OK", "rm")

\* OPEN: mkdir of the parent, then fsp.open
SftpOpen(sid, p) ==
    LET n == normalize(SandboxRoot(sid), p)
        tch == {PathDirname(n.v), n.v}
    IN /\ IF n.err
          THEN sftp' = Answer(sid, "OPEN", "FAILURE", {}) /\ UNCHANGED dirs
          ELSE \E made \in BOOLEAN, opened \in BOOLEAN :
                  /\ sftp' = Answer(sid, "OPEN",
                                    IF made /\ opened THEN "HANDLE" ELSE "FAILURE", tch)
                  /\ dirs' = IF made THEN ApplyAll(dirs, PathFx("mkdir", PathDirname(n.v)))
                             ELSE dirs
       /\ UNCHANGED <<lifeVars, fmVars>>

SftpRename(sid, p, q) ==
    LET a == normalize(SandboxRoot(sid), p)
        b == normalize(SandboxRoot(sid), q)
    IN /\ IF a.err \/ b.err
          THEN sftp' = Answer(sid, "RENAME", "FAILURE", {}) /\ UNCHANGED dirs
          ELSE \E ok \in BOOLEAN :
                  IF ok /\ ~RenameRefused(a.v, b.v)
                  THEN /\ sftp' = Answer(sid, "RENAME", "OK", {a.v, b.v})
                       /\ dirs' = ApplyAll(dirs, <<Fx("rename", a.v, b.v)>>)
                  ELSE /\ sftp' = Answer(sid, "RENAME", "FAILURE", {a.v, b.v})
                       /\ UNCHANGED dirs
       /\ UNCHANGED <<lifeVars, fmVars>>

\* the answer has gone out on the channel
SftpSent ==
    /\ sftp # SftpIdle
    /\ sftp' = SftpIdle
    /\ UNCHANGED <<lifeVars, dirs, fmVars>>

(* ---------------------------------------------------------------------- *)
(* Authorisation of the control requests                                    *)
(* ---------------------------------------------------------------------- *)

\* body.token against config.token
BodyTokens == {"missing", "wrong", "right"}

\* what the POST to the remote helper comes to: an answer carrying true or
\* false, an HTTP error status, or no connection
HelperOutcomes == {"true", "false", "error", "unreachable"}

\* the routes of RouteConfig with the sub-routes of interpretServers, the
\* SFTP password login and the console WebSocket route
Endpoints == {"status", "create", "delete", "serverStatus", "action", "usage",
              "filemanager", "sftp", "console"}

\* the routes that take a JSON body with the token
ControlEndpoints == Endpoints \ {"sftp", "console"}

NoHttp == [ep |-> "", token |-> "", sid |-> FALSE, uid |-> FALSE, found |-> FALSE,
           helper |-> "", code |-> "", asked |-> FALSE, ran |-> FALSE]

\* userIsAdmin, hasPermission, VerifySFTP: the value of the answer; false
\* from the catch block
HelperSaysFailOpen(helper) == helper # "false"
HelperSays(helper) == helper = "true"

\* the handler returns with this answer; asked: the helper was called;
\* ran: the handler got past its checks and went on to the operation
Replied(rq, code, asked) ==
    [rq EXCEPT !.code = code, !.asked = asked, !.ran = code \in {"200", "accept", "open"}]

\* POST /api/v1/status
VerifyStatus(rq) ==
    IF rq.token # "right" THEN Replied(rq, "401", FALSE) ELSE Replied(rq, "200", FALSE)

\* the checks that open the /servers handlers; "" when the request passes them
BodyChecks(rq) ==
    IF rq.token = "missing" THEN "400"
    ELSE IF rq.token = "wrong" THEN "403"
    ELSE IF ~rq.sid THEN "400"
    ELSE IF ~rq.uid THEN "400"
    ELSE ""

\* CreateServer and DeleteServer up to the operation
AdminOnly(rq) ==
    IF BodyChecks(rq) # "" THEN Replied(rq, BodyChecks(rq), FALSE)
    ELSE IF ~HelperSays(rq.helper) THEN Replied(rq, "403", TRUE)
    ELSE IF rq.ep = "delete" /\ ~rq.found THEN Replied(rq, "404", TRUE)
    ELSE Replied(rq, "200", TRUE)

\* GetServerStatus, SendActionServer and GetServerUsage up to the operation
WithPermission(rq) ==
    IF BodyChecks(rq) # "" THEN Replied(rq, BodyChecks(rq), FALSE)
    ELSE IF ~rq.found THEN Replied(rq, "404", FALSE)
    ELSE IF ~HelperSays(rq.helper) THEN Replied(rq, "403", TRUE)
    ELSE Replied(rq, "200", TRUE)

\* validateAuth of the file manager
validateAuth(rq) == rq.token = "right" /\ rq.sid /\ rq.uid

\* interpretFileManager up to the dispatch on the sub-route
FileManagerAuth(rq) ==
    IF ~validateAuth(rq) THEN Replied(rq, "400", FALSE)
    ELSE IF ~rq.found THEN Replied(rq, "403", FALSE)
    ELSE IF ~HelperSays(rq.helper) THEN Replied(rq, "403", TRUE)
    ELSE Replied(rq, "200", TRUE)

\* the password branch of the SFTP authentication handler
SftpLogin(rq) ==
    IF ~rq.found THEN Replied(rq, "reject", FALSE)
    ELSE IF ~HelperSays(rq.helper) THEN Replied(rq, "reject", TRUE)
    ELSE Replied(rq, "accept", TRUE)

\* the console route up to the subscription: the socket is closed or kept
ConsoleUpgrade(rq) ==
    IF ~rq.sid \/ ~rq.uid \/ ~rq.found THEN Replied(rq, "close", FALSE)
    ELSE IF ~HelperSays(rq.helper) THEN Replied(rq, "close", TRUE)
    ELSE Replied(rq, "open", TRUE)

\* interpretServers and handleRequest: the handler of the route
Handle(rq) ==
    CASE rq.ep = "status" -> VerifyStatus(rq)
      [] rq.ep \in {"create", "delete"} -> AdminOnly(rq)
      [] rq.ep \in {"serverStatus", "action", "usage"} -> WithPermission(rq)
      [] rq.ep = "filemanager" -> FileManagerAuth(rq)
      [] rq.ep = "sftp" -> SftpLogin(rq)
      [] OTHER -> ConsoleUpgrade(rq)

\* one request is received and answered
HttpRequest(ep, token, sid, uid, found, helper) ==
    /\ http' = Handle([NoHttp EXCEPT !.ep = ep, !.token = token, !.sid = sid,
                                     !.uid = uid, !.found = found,
                                     !.helper = helper])
    /\ UNCHANGED <<servers, inst, dirs, rt, tasks, waits, bg, last, hist,
                   fmVars, sftp, traced, boot, live, ses, ticks, streams, auxVars>>

(* ---------------------------------------------------------------------- *)
(* Live events of one instance                                              *)
(* ---------------------------------------------------------------------- *)

MaxEvents == 3

\* the functions handed to addLiveListener
Listeners == {"f", "g"}

\* liveListeners in insertion order (a Set iterates in insertion order); got:
\* the events each listener was called with; n: the events emitted so far, an
\* event being known by its number; since, till: the value of n when the
\* listener was added and when it was taken out again; threw: the listeners
\* that threw when the last event was emitted
NoLive == [subs |-> <<>>,
           threw |-> {},
           got |-> [l \in Listeners |-> <<>>],
           n |-> 0,
           since |-> [l \in Listeners |-> Null],
           till |-> [l \in Listeners |-> Null]]

Registered(l) == \E k \in 1..Len(live.subs) : live.subs[k] = l

\* a delete that leaves the set as it is
SetDeleteKeeps(subs, l) == subs
\* Set.prototype.delete on the insertion-ordered set
SetDelete(subs, l) == SelectSeq(subs, LAMBDA x : x # l)

\* addLiveListener(fn): Set.prototype.add
addLiveListener(l) ==
    /\ live.since[l] = Null
    /\ live' = [live EXCEPT !.subs = IF Registered(l) THEN @ ELSE Append(@, l),
                            !.since[l] = live.n + 1]
    /\ UNCHANGED <<servers, inst, dirs, rt, tasks, waits, bg, last, hist,
                   fmVars, sftp, traced, boot, http, ses, ticks, streams, auxVars>>

\* the function addLiveListener returned is called
Unsubscribe(l) ==
    /\ live.since[l] # Null
    /\ live.till[l] = Null
    /\ live' = [live EXCEPT !.subs = SetDelete(@, l), !.till[l] = live.n + 1]
    /\ UNCHANGED <<servers, inst, dirs, rt, tasks, waits, bg, last, hist,
                   fmVars, sftp, traced, boot, http, ses, ticks, streams, auxVars>>

\* delete(): this.liveListeners.clear()
ClearListeners ==
    /\ live.subs # <<>>
    /\ live' = [live EXCEPT
                  !.subs = <<>>,
                  !.till = [l \in Listeners |->
                              IF Registered(l) THEN live.n + 1 ELSE @[l]]]
    /\ UNCHANGED <<servers, inst, dirs, rt, tasks, waits, bg, last, hist,
                   fmVars, sftp, traced, boot, http, ses, ticks, streams, auxVars>>

\* try { l(entry) } catch {}: whether a throw of the listener leaves the loop
LeavesLoopUncaught(threw) == threw
LeavesLoop(threw) == FALSE

\* for (const l of this.liveListeners): the listeners are called in turn
RECURSIVE CallEach(_, _, _, _)
CallEach(subs, got, e, throwers) ==
    IF subs = <<>> THEN got
    ELSE IF LeavesLoop(Head(subs) \in throwers)
         THEN [got EXCEPT ![Head(subs)] = Append(@, e)]
         ELSE CallEach(Tail(subs), [got EXCEPT ![Head(subs)] = Append(@, e)],
                       e, throwers)

\* _emitLive(category, message); the listeners of throwers throw
emitLive(throwers) ==
    /\ live.n < MaxEvents
    /\ live' = [live EXCEPT !.n = @ + 1,
                            !.threw = throwers,
                            !.got = CallEach(live.subs, @, live.n + 1, throwers)]
    /\ UNCHANGED <<servers, inst, dirs, rt, tasks, waits, bg, last, hist,
                   fmVars, sftp, traced, boot, http, ses, ticks, streams, auxVars>>

(* ---------------------------------------------------------------------- *)
(* The console WebSocket session                                            *)
(* ---------------------------------------------------------------------- *)

MaxTicks == 2

\* the categories _emitLive is called with
Categories == {"status", "error", "pull", "internal"}

\* pc: how far the connection handler has got (none: nobody has connected,
\* perm: hasPermission is awaited, setup: the first getStatus or beginStream is
\* awaited, open: the timers and the socket handlers are set, refused: the
\* error frame is sent and the socket closed); i: the instance getServer
\* returned; sock: the socket (closing: terminated, its close event is due);
\* listening: the session's listener is in the instance's liveListeners;
\* unanswered: the heartbeat has pinged and no pong has come back since;
\* out: the categories of the frames the last step sent; fwd: the command the
\* last step handed to sendCommand; ev: the category of the live event the
\* last step emitted; ids, found, helper: what the query
\* carried, whether getServer found the instance, what the helper answered
NoSession ==
    [pc |-> "none", i |-> Null, sock |-> "none",
     ids |-> FALSE, found |-> FALSE, helper |-> "", fwd |-> <<>>, ev |-> "",
     streamStarted |-> FALSE, logStreamCleanup |-> Null, liveUnsub |-> FALSE,
     statusMonitor |-> FALSE, lastStatus |-> "unknown",
     hb |-> FALSE, alive |-> FALSE, unanswered |-> FALSE,
     listening |-> FALSE, out |-> <<>>]

\* the session, the streams and the suspended calls as a handler finds them;
\* the frames of the step are collected from nothing
Ctx == [s |-> [ses EXCEPT !.out = <<>>, !.fwd = <<>>, !.ev = ""],
        st |-> streams, fs |-> ticks]

Put(ctx) == ses' = ctx.s /\ streams' = ctx.st /\ ticks' = ctx.fs

\* a suspended asynchronous call of the session: who (setup: the connection
\* handler, tick: a supervisor callback), the await it is parked at (inspect:
\* getStatus, tty and logs: streamDockerLogs), the container the awaited
\* runtime call addresses and the status the callback has read
Frame(who, pc, c, cur) == [who |-> who, pc |-> pc, c |-> c, cur |-> cur]

\* sendStructured: internal events are dropped, the frame is sent if the
\* socket is open (send is in a try block)
sendStructuredAll(ctx, category) ==
    IF ctx.s.sock # "open" THEN ctx
    ELSE [ctx EXCEPT !.s.out = Append(@, category)]
sendStructured(ctx, category) ==
    IF category = "internal" \/ ctx.s.sock # "open" THEN ctx
    ELSE [ctx EXCEPT !.s.out = Append(@, category)]

\* the cleanup function streamDockerLogs returned is called
CloseStream(st, k) == {x \in st : x.id # k}

\* the stream container.logs resolves to, told from the others by a number
NewStream(c) ==
    [id |-> CHOOSE n \in 1..(Cardinality(streams) + 1) :
               /\ \A x \in streams : x.id # n
               /\ \A m \in 1..(n - 1) : \E x \in streams : x.id = m,
     c |-> c]

\* cleanupResources: the timer is cleared, the stream destroyed, the listener
\* removed and the variables reset
cleanupResources(ctx) ==
    [ctx EXCEPT !.st = CloseStream(@, ctx.s.logStreamCleanup),
                !.s.listening = IF ctx.s.liveUnsub THEN FALSE ELSE @,
                !.s.statusMonitor = FALSE,
                !.s.logStreamCleanup = Null,
                !.s.liveUnsub = FALSE,
                !.s.streamStarted = FALSE]

\* the rest of the connection handler: the supervisor and heartbeat timers are
\* set and the pong, message, close and error handlers registered
FinishSetup(ctx) ==
    [ctx EXCEPT !.s.statusMonitor = TRUE, !.s.hb = TRUE, !.s.alive = TRUE,
                !.s.pc = "open"]

\* what follows the await of beginStream in the caller f
AfterBegin(ctx, f) ==
    IF f.who = "setup" THEN FinishSetup(ctx)
    ELSE [ctx EXCEPT !.s.lastStatus = f.cur]

\* beginStream up to its await, called by f when the instance is s
beginStream(ctx, f, s) ==
    IF ctx.s.streamStarted THEN AfterBegin(ctx, f)
    ELSE IF s.container = Null
    THEN AfterBegin(sendStructured(ctx, "status"), f)
    ELSE [ctx EXCEPT !.s.streamStarted = TRUE,
                     !.fs = @ \cup {[f EXCEPT !.pc = "tty", !.c = s.container]}]

\* the catch block of beginStream
BeginFailed(ctx, f) ==
    AfterBegin(sendStructured([ctx EXCEPT !.s.streamStarted = FALSE], "error"), f)

\* the connection handler once the first getStatus has returned status
FirstStatus(ctx, f, status, s) ==
    LET c1 == [ctx EXCEPT !.s.lastStatus = status]
    IN IF status # "stopped" /\ ~c1.s.streamStarted THEN beginStream(c1, f, s)
       ELSE IF status = "stopped" THEN FinishSetup(sendStructured(c1, "status"))
       ELSE FinishSetup(c1)

\* the supervisor callback once its getStatus has returned status
Supervise(ctx, f, status, s) ==
    IF status = ctx.s.lastStatus THEN ctx
    ELSE IF status = "stopped"
    THEN IF ctx.s.streamStarted
         THEN [ctx EXCEPT !.st = CloseStream(@, ctx.s.logStreamCleanup),
                          !.s.logStreamCleanup = Null,
                          !.s.streamStarted = FALSE,
                          !.s.lastStatus = status]
         ELSE [ctx EXCEPT !.s.lastStatus = status]
    ELSE IF ~ctx.s.streamStarted
    THEN beginStream(ctx, [f EXCEPT !.cur = status], s)
    ELSE [ctx EXCEPT !.s.lastStatus = status]

\* the caller f of getStatus goes on with the status it returned
Observed(ctx, f, status, s) ==
    IF f.who = "setup" THEN FirstStatus(ctx, f, status, s)
    ELSE Supervise(ctx, f, status, s)

\* server.getStatus() called by f: without a handle it returns at once, with
\* one it awaits container.inspect()
CallGetStatus(ctx, f) ==
    IF inst[ses.i].container = Null
    THEN /\ inst' = [inst EXCEPT ![ses.i].running = FALSE]
         /\ Put(Observed(ctx, f, "stopped", inst[ses.i]))
    ELSE /\ inst' = inst
         /\ Put([ctx EXCEPT !.fs = @ \cup {[f EXCEPT !.pc = "inspect",
                                                    !.c = inst[ses.i].container]}])

consoleRest == <<servers, dirs, rt, tasks, waits, bg, hist, fmVars, sftp, traced,
                 boot, http, live, auxVars>>

\* a refusal that leaves the socket open
RefuseKeepsOpen(ctx) == [sendStructured(ctx, "error") EXCEPT !.s.pc = "refused"]
\* sendStructured('error', ...); return sock.close()
Refuse(ctx) ==
    [sendStructured(ctx, "error") EXCEPT !.s.pc = "refused", !.s.sock = "closed"]

\* a client connects to /api/v1/servers/console
ConsoleConnect(hasIds, id) ==
    /\ ses.pc = "none"
    /\ LET ctx == [Ctx EXCEPT !.s.sock = "open", !.s.ids = hasIds,
                              !.s.found = hasIds /\ getServer(id) # Null]
       IN IF ~hasIds \/ getServer(id) = Null
          THEN Put(Refuse(ctx))
          ELSE Put([ctx EXCEPT !.s.pc = "perm", !.s.i = getServer(id)])
    /\ last' = Quiet
    /\ UNCHANGED <<inst, consoleRest>>

\* hasPermission has settled: the session is refused, or subscribed to the
\* live events and its first getStatus called
ConsolePermission(helper) ==
    /\ ses.pc = "perm"
    /\ IF ~HelperSays(helper)
       THEN /\ Put(Refuse([Ctx EXCEPT !.s.helper = helper]))
            /\ inst' = inst
       ELSE CallGetStatus([Ctx EXCEPT !.s.helper = helper,
                                      !.s.liveUnsub = TRUE, !.s.listening = TRUE,
                                      !.s.lastStatus = "unknown",
                                      !.s.pc = "setup"],
                          Frame("setup", "", Null, ""))
    /\ last' = Quiet
    /\ UNCHANGED consoleRest

\* the container.inspect() of a getStatus the session called has settled
ConsoleInspected(f) ==
    /\ f \in ticks /\ f.pc = "inspect"
    /\ \E status \in InspectOutcomes(f.c) :
          /\ inst' = [inst EXCEPT ![ses.i] = getStatusSync(@, status)]
          /\ Put(Observed([Ctx EXCEPT !.fs = @ \ {f}], f, getStatusResult(status),
                          getStatusSync(inst[ses.i], status)))
    /\ last' = Quiet
    /\ UNCHANGED consoleRest

\* streamDockerLogs: the inspect for the tty flag has settled (its failure is
\* swallowed) and this.container.logs is called
ConsoleTty(f) ==
    /\ f \in ticks /\ f.pc = "tty"
    /\ LET ctx == [Ctx EXCEPT !.fs = @ \ {f}]
       IN IF inst[ses.i].container = Null
          THEN Put(BeginFailed(ctx, f))
          ELSE Put([ctx EXCEPT !.fs = @ \cup {[f EXCEPT !.pc = "logs",
                                                       !.c = inst[ses.i].container]}])
    /\ last' = Quiet
    /\ UNCHANGED <<inst, consoleRest>>

\* container.logs({follow: true}) has settled: beginStream keeps the cleanup
\* function, or resets the flag and reports the failure
ConsoleLogs(f, ok) ==
    /\ f \in ticks /\ f.pc = "logs"
    /\ ok => rt[f.c].state # "removed"
    /\ LET ctx == [Ctx EXCEPT !.fs = @ \ {f}]
       IN IF ok
          THEN Put(AfterBegin([ctx EXCEPT
                                 !.st = @ \cup {NewStream(f.c)},
                                 !.s.logStreamCleanup = NewStream(f.c).id], f))
          ELSE Put(BeginFailed(ctx, f))
    /\ last' = Quiet
    /\ UNCHANGED <<inst, consoleRest>>

\* the 2 s interval fires: the supervisor callback runs up to its first await
ConsoleTick ==
    /\ ses.statusMonitor
    /\ Cardinality(ticks) < MaxTicks
    /\ CallGetStatus(Ctx, Frame("tick", "", Null, ""))
    /\ last' = Quiet
    /\ UNCHANGED consoleRest

\* the pong handler that leaves the flag alone
OnPongIgnored(s) == [s EXCEPT !.unanswered = FALSE]
\* sock.on('pong', () => alive = true)
OnPong(s) == [s EXCEPT !.alive = TRUE, !.unanswered = FALSE]

\* the client answers the ping
Pong ==
    /\ ses.pc = "open" /\ ses.sock = "open" /\ ses.unanswered
    /\ ses' = OnPong(Ctx.s)
    /\ last' = Quiet
    /\ UNCHANGED <<inst, streams, ticks, consoleRest>>

\* the 15 s interval fires
Heartbeat ==
    /\ ses.hb
    /\ IF ~ses.alive
       THEN Put([cleanupResources(Ctx) EXCEPT
                   !.s.hb = FALSE,
                   !.s.sock = IF @ = "open" THEN "closing" ELSE @])
       ELSE Put([Ctx EXCEPT !.s.alive = FALSE, !.s.unanswered = TRUE])
    /\ last' = Quiet
    /\ UNCHANGED <<inst, consoleRest>>

\* sock.on('close', ...): the handler of the close event
OnClose(ctx) == [cleanupResources(ctx) EXCEPT !.s.hb = FALSE, !.s.sock = "closed"]

\* the client closes the socket; the close event finds the handler only if
\* it is registered by then
ClientClose ==
    /\ ses.sock = "open"
    /\ ses.pc \in {"perm", "setup", "open"}
    /\ IF ses.pc = "open" THEN Put(OnClose(Ctx))
       ELSE Put([Ctx EXCEPT !.s.sock = "closed"])
    /\ last' = Quiet
    /\ UNCHANGED <<inst, consoleRest>>

\* the close event of the socket the heartbeat terminated
CloseEvent ==
    /\ ses.sock = "closing"
    /\ Put(OnClose(Ctx))
    /\ last' = Quiet
    /\ UNCHANGED <<inst, consoleRest>>

\* the instance emits a live event: its listeners are called
ConsoleEvent(category) ==
    /\ ses.pc # "none" /\ ses.i # Null
    /\ LET ctx == [Ctx EXCEPT !.s.ev = category]
       IN Put(IF ses.listening THEN sendStructured(ctx, category) ELSE ctx)
    /\ last' = Quiet
    /\ UNCHANGED <<inst, consoleRest>>

\* a follow-logs stream delivers a line of the container's output
LogLine(x) ==
    /\ x \in streams
    /\ rt[x.c].state = "running"
    /\ Put(sendStructured(Ctx, "log"))
    /\ last' = Quiet
    /\ UNCHANGED <<inst, consoleRest>>

Messages == {"command", "other", "garbage"}

\* sock.on('message', ...): a command is handed to sendCommand; a message that
\* does not parse or a sendCommand that throws is answered with an error frame
ConsoleMessage(msg, ok) ==
    /\ ses.pc = "open" /\ ses.sock = "open"
    /\ IF msg = "command"
       THEN /\ HasFreeSlot
            /\ BeginSend(tasks, ses.i, inst, "command", "", <<"a">>, ok,
                         Step("command", ses.i, "console", "", <<"a">>))
            /\ Put(IF inst[ses.i].container = Null
                      \/ (inst[ses.i].stdinStream # Null /\ ~ok)
                   THEN sendStructured([Ctx EXCEPT !.s.fwd = <<"a">>], "error")
                   ELSE [Ctx EXCEPT !.s.fwd = <<"a">>])
       ELSE /\ Put(IF msg = "garbage" THEN sendStructured(Ctx, "error") ELSE Ctx)
            /\ last' = Quiet
            /\ UNCHANGED <<inst, tasks>>
    /\ UNCHANGED <<servers, dirs, rt, waits, bg, hist, fmVars, sftp, traced,
                   boot, http, live, auxVars>>

(* ---------------------------------------------------------------------- *)
(* SFTP daemon: the password login and the handle tables                    *)
(* ---------------------------------------------------------------------- *)

MaxName == 3    \* characters of a login name drawn for an attempt

Clients == {1, 2}
Passwords == {"p", "q"}
Methods == {"none", "password"}
NameLetters == {"u", "_", "s", "a"}

\* the login names a client sends
Usernames == UNION {[1..n -> NameLetters] : n \in 0..MaxName}

\* the ids of the instances an SFTP login is resolved against
IdSA == <<"s", "a">>
IdA == <<"a">>
SftpIds == {IdS, IdSS, IdSA, IdA}
LoginRegistries ==
    {<<>>} \cup {<<a>> : a \in SftpIds}
           \cup {<<IdS, IdSS>>, <<IdSS, IdSA>>, <<IdSA, IdA>>, <<IdS, IdA>>}

\* Array.prototype.join("_")
RECURSIVE JoinUnderscore(_)
JoinUnderscore(parts) ==
    IF parts = <<>> THEN <<>>
    ELSE IF Len(parts) = 1 THEN parts[1]
    ELSE parts[1] \o <<"_">> \o JoinUnderscore(Tail(parts))

\* parts.slice(0, -1).join("_")
usernameBaseOf(parts) == JoinUnderscore(SubSeq(parts, 1, Len(parts) - 1))

\* parts.pop() || 'a'
serverIdOf(parts) ==
    IF parts[Len(parts)] = <<>> THEN IdA ELSE parts[Len(parts)]

\* servers.filter(s => s.id.startsWith(serverId)), as registry positions
PrefixMatches(serverId) ==
    {k \in 1..Len(servers) : StartsWith(inst[servers[k]].id, serverId)}

\* the exact match, then the match by prefix: the instance serverObj is left
\* with, and whether the handler rejected for ambiguity
Lookup(serverId) ==
    IF getServer(serverId) # Null
    THEN [obj |-> getServer(serverId), ambiguous |-> FALSE]
    ELSE IF Cardinality(PrefixMatches(serverId)) = 1
    THEN [obj |-> servers[CHOOSE k \in PrefixMatches(serverId) : TRUE],
          ambiguous |-> FALSE]
    ELSE [obj |-> Null, ambiguous |-> Cardinality(PrefixMatches(serverId)) > 1]

\* path.join(BASE_SERVER_PATH, serverObj.id)
rootDirOfFirst(obj) == SandboxRoot(inst[servers[1]].id)
rootDirOf(obj) == SandboxRoot(inst[obj].id)

NoAttempt == [method |-> "", username |-> <<>>, password |-> ""]
NoCall == [user |-> <<>>, pass |-> "", obj |-> Null, said |-> ""]

\* one SSH connection: serverObj and rootDir are the variables of the
\* connection callback (usernameBase, read only in the run that assigns it,
\* is kept in call); att is the authentication context handled last, was the
\* serverObj it found, call the VerifySFTP call made for it, answer what ctx
\* was told
NoConn ==
    [state |-> "new", serverObj |-> Null, rootDir |-> <<>>,
     att |-> NoAttempt, was |-> Null, call |-> NoCall, answer |-> ""]

\* an entry of fileHandles or dirHandles; owner: the client that opened it,
\* root: the sandbox its path was resolved in
NoEntry == [key |-> "", owner |-> 0, root |-> <<>>, sent |-> FALSE]
NoReply == [c |-> 0, op |-> "", status |-> "", entry |-> NoEntry]

SshIdle ==
    [conn |-> [c \in Clients |-> NoConn], fileHandles |-> {}, dirHandles |-> {},
     reply |-> NoReply]

sshRest == <<servers, inst, dirs, rt, tasks, waits, bg, last, hist, fmVars, sftp,
             traced, boot, http, live, ses, ticks, streams, calc>>

\* the connection's record after the handler has run up to its first await
\* or to a rejection
Attempted(cn, method, username, password) ==
    LET att == [method |-> method, username |-> username, password |-> password]
        parts == Split(username, {"_"})
        found == Lookup(serverIdOf(parts))
        seen == [cn EXCEPT !.att = att, !.was = cn.serverObj, !.call = NoCall,
                           !.answer = "reject"]
    IN IF method # "password" THEN seen
       ELSE IF Len(parts) < 2 THEN seen
       ELSE IF found.obj = Null
       THEN [seen EXCEPT !.serverObj = Null]
       ELSE [seen EXCEPT !.serverObj = found.obj,
                         !.state = "verifying",
                         !.answer = "",
                         !.call = [user |-> usernameBaseOf(parts),
                                   pass |-> password,
                                   obj |-> found.obj, said |-> ""]]

\* client.on('authentication'): the library hands over one authentication
\* context at a time and none once a context has been accepted
Authentication(c, method, username, password) ==
    /\ ssh.conn[c].state = "new"
    /\ ssh' = [ssh EXCEPT !.conn[c] = Attempted(@, method, username, password),
                          !.reply = NoReply]
    /\ UNCHANGED sshRest

\* VerifySFTP settles: rejected, or rootDir is set and the context accepted
VerifySettles(c, helper) ==
    /\ ssh.conn[c].state = "verifying"
    /\ ssh' = [ssh EXCEPT
                 !.conn[c] =
                     IF HelperSays(helper)
                     THEN [@ EXCEPT !.call.said = helper,
                                    !.rootDir = rootDirOf(ssh.conn[c].serverObj),
                                    !.answer = "accept", !.state = "accepted"]
                     ELSE [@ EXCEPT !.call.said = helper,
                                    !.answer = "reject", !.state = "new"]]
    /\ UNCHANGED sshRest

\* client.on('ready'): the session and its SFTP channel are set up
Ready(c) ==
    /\ ssh.conn[c].state = "accepted"
    /\ ssh' = [ssh EXCEPT !.conn[c].state =
                     IF ssh.conn[c].serverObj = Null THEN "closed" ELSE "ready"]
    /\ UNCHANGED sshRest

\* the client goes away: 'end', 'close' and 'error' write a log line
Disconnect(c) ==
    /\ ssh.conn[c].state \in {"new", "accepted", "ready"}
    /\ ssh' = [ssh EXCEPT !.conn[c].state = "closed", !.reply = NoReply]
    /\ UNCHANGED sshRest

HandleKeys == {"h1", "h2"}

\* Buffer.from(Math.random().toString(36).slice(2)): a key in neither table
FreshKey(key) ==
    /\ key \in HandleKeys
    /\ \A e \in ssh.fileHandles \cup ssh.dirHandles : e.key # key

\* Map.prototype.get
Get(table, key) ==
    IF \E e \in table : e.key = key THEN CHOOSE e \in table : e.key = key
    ELSE NoEntry

Replying(c, op, status, entry) ==
    [c |-> c, op |-> op, status |-> status, entry |-> entry]

\* OPEN once the path is resolved: the descriptor is stored under a new key
OpenHandle(c, key, ok) ==
    /\ ssh.conn[c].state = "ready"
    /\ FreshKey(key)
    /\ ssh' = IF ok
              THEN [ssh EXCEPT
                      !.fileHandles = @ \cup {[key |-> key, owner |-> c,
                                               root |-> ssh.conn[c].rootDir,
                                               sent |-> FALSE]},
                      !.reply = Replying(c, "OPEN", "HANDLE", NoEntry)]
              ELSE [ssh EXCEPT !.reply = Replying(c, "OPEN", "FAILURE", NoEntry)]
    /\ UNCHANGED sshRest

\* OPENDIR once the path is resolved: the listing is stored under a new key
OpendirHandle(c, key, ok) ==
    /\ ssh.conn[c].state = "ready"
    /\ FreshKey(key)
    /\ ssh' = IF ok
              THEN [ssh EXCEPT
                      !.dirHandles = @ \cup {[key |-> key, owner |-> c,
                                              root |-> ssh.conn[c].rootDir,
                                              sent |-> FALSE]},
                      !.reply = Replying(c, "OPENDIR", "HANDLE", NoEntry)]
              ELSE [ssh EXCEPT !.reply = Replying(c, "OPENDIR", "FAILURE", NoEntry)]
    /\ UNCHANGED sshRest

\* READ, WRITE and FSTAT: fileHandles.get(key), then the call on its descriptor
OnFileHandle(c, op, key, answer, ok) ==
    /\ ssh.conn[c].state = "ready"
    /\ ssh' = [ssh EXCEPT !.reply =
                  IF Get(ssh.fileHandles, key) = NoEntry
                  THEN Replying(c, op, "FAILURE", NoEntry)
                  ELSE Replying(c, op, IF ok THEN answer ELSE "FAILURE",
                                Get(ssh.fileHandles, key))]
    /\ UNCHANGED sshRest

Read(c, key, ok) == OnFileHandle(c, "READ", key, "DATA", ok)
Write(c, key, ok) == OnFileHandle(c, "WRITE", key, "OK", ok)
Fstat(c, key, ok) == OnFileHandle(c, "FSTAT", key, "ATTRS", ok)

\* READDIR: the whole listing the first time, EOF afterwards
Readdir(c, key) ==
    LET d == Get(ssh.dirHandles, key)
    IN /\ ssh.conn[c].state = "ready"
       /\ ssh' = IF d = NoEntry
                 THEN [ssh EXCEPT !.reply = Replying(c, "READDIR", "FAILURE", NoEntry)]
                 ELSE IF d.sent
                 THEN [ssh EXCEPT !.reply = Replying(c, "READDIR", "EOF", d)]
                 ELSE [ssh EXCEPT
                         !.dirHandles = (@ \ {d}) \cup {[d EXCEPT !.sent = TRUE]},
                         !.reply = Replying(c, "READDIR", "NAME", d)]
       /\ UNCHANGED sshRest

\* CLOSE: a file handle, else a directory handle, else FAILURE
Close(c, key) ==
    LET fh == Get(ssh.fileHandles, key)
        d == Get(ssh.dirHandles, key)
    IN /\ ssh.conn[c].state = "ready"
       /\ ssh' = IF fh # NoEntry
                 THEN [ssh EXCEPT !.fileHandles = @ \ {fh},
                                  !.reply = Replying(c, "CLOSE", "OK", fh)]
                 ELSE IF d # NoEntry
                 THEN [ssh EXCEPT !.dirHandles = @ \ {d},
                                  !.reply = Replying(c, "CLOSE", "OK", d)]
                 ELSE [ssh EXCEPT !.reply = Replying(c, "CLOSE", "FAILURE", NoEntry)]
       /\ UNCHANGED sshRest

(* ---------------------------------------------------------------------- *)
(* Pure helpers                                                             *)
(* ---------------------------------------------------------------------- *)

NoCalc == [op |-> "", in |-> <<>>, out |-> <<>>]

calcRest == <<servers, inst, dirs, rt, tasks, waits, bg, last, hist, fmVars, sftp,
              traced, boot, http, live, ses, ticks, streams, ssh>>

\* String.prototype.endsWith
EndsWith(s, suf) ==
    Len(suf) <= Len(s) /\ SubSeq(s, Len(s) - Len(suf) + 1, Len(s)) = suf

\* String.prototype.toLowerCase, over the capitals of the names drawn
ToLowerCase(s) ==
    [i \in 1..Len(s) |->
        CASE s[i] = "Z" -> "z" [] s[i] = "I" -> "i" [] s[i] = "P" -> "p"
          [] s[i] = "T" -> "t" [] s[i] = "G" -> "g" [] OTHER -> s[i]]

\* name.replace(/\.[^.]+$/, '')
StripExtension(name) ==
    IF \E i \in 1..(Len(name) - 1) :
          name[i] = "." /\ \A j \in (i + 1)..Len(name) : name[j] # "."
    THEN SubSeq(name, 1,
                (CHOOSE i \in 1..(Len(name) - 1) :
                    name[i] = "." /\ \A j \in (i + 1)..Len(name) : name[j] # ".") - 1)
    ELSE name

deriveArchiveBase(name) ==
    IF EndsWith(ToLowerCase(name), <<".", "t", "a", "r", ".", "g", "z">>)
    THEN SubSeq(name, 1, Len(name) - 7)
    ELSE IF EndsWith(ToLowerCase(name), <<".", "t", "g", "z">>)
    THEN SubSeq(name, 1, Len(name) - 4)
    ELSE IF \/ EndsWith(ToLowerCase(name), ZipSuffix)
            \/ EndsWith(ToLowerCase(name), <<".", "r", "a", "r">>)
            \/ EndsWith(ToLowerCase(name), <<".", "t", "a", "r">>)
    THEN SubSeq(name, 1, Len(name) - 4)
    ELSE StripExtension(name)

\* Array.prototype.filter(seg => seg && seg !== '.')
RECURSIVE KeepNamed(_)
KeepNamed(segs) ==
    IF segs = <<>> THEN <<>>
    ELSE IF segs[1] = <<>> \/ segs[1] = Dot THEN KeepNamed(Tail(segs))
    ELSE <<segs[1]>> \o KeepNamed(Tail(segs))

\* p.replace(/^([A-Za-z]:)?[\\/]+/, '')
StripDriveAndSlashes(p) ==
    IF Len(p) >= 3 /\ p[1] \in Letters /\ p[2] = ":" /\ p[3] \in {"/", "\\"}
    THEN StripLeading(SubSeq(p, 3, Len(p)), {"/", "\\"})
    ELSE StripLeading(p, {"/", "\\"})

sanitizeArchiveEntry(p) ==
    LET parts == KeepNamed(Split(ReplaceBackslashes(StripDriveAndSlashes(p)), {"/"}))
    IN IF Some(parts, DotDot) THEN Thrown ELSE Value(JoinSlash(parts))

\* Array.prototype.filter(Boolean) on strings
RECURSIVE NonEmpty(_)
NonEmpty(names) ==
    IF names = <<>> THEN <<>>
    ELSE IF names[1] = <<>> THEN NonEmpty(Tail(names))
    ELSE <<names[1]>> \o NonEmpty(Tail(names))

\* the flatten criterion on the entry names listed: every entry is firstTop
\* or lies in it, and firstTop is the archive's base name
FlattenCriterion(names, archiveBaseName) ==
    /\ names # <<>>
    /\ Split(names[1], {"/"})[1] # <<>>
    /\ \A i \in 1..Len(names) :
          \/ names[i] = Split(names[1], {"/"})[1]
          \/ StartsWith(names[i], Split(names[1], {"/"})[1] \o <<"/">>)
    /\ Split(names[1], {"/"})[1] = archiveBaseName

\* the name an entry is extracted under once rootCandidate is discarded
StrippedKeepsRoot(entryName, rootCandidate) == entryName
Stripped(entryName, rootCandidate) ==
    IF StartsWith(entryName, rootCandidate \o <<"/">>)
    THEN SubSeq(entryName, Len(rootCandidate) + 2, Len(entryName))
    ELSE entryName

\* one turn of the zip loop: the path written (<<>>: the entry is skipped or
\* its result is an error)
ZipEntry(entry, destAbs, flatten, rootCandidate) ==
    LET clean == sanitizeArchiveEntry(entry)
        entryName == IF flatten THEN Stripped(clean.v, rootCandidate) ELSE clean.v
        finalAbs == PathJoin(destAbs, entryName)
    IN IF clean.err \/ clean.v = <<>> THEN <<>>
       ELSE IF flatten /\ (clean.v = rootCandidate \/ entryName = <<>>) THEN <<>>
       ELSE IF ~StartsWith(finalAbs, PathResolve(destAbs, <<>>)) THEN <<>>
       ELSE finalAbs

\* tar.x with cwd, strip and the filter: an entry the filter refuses or with
\* nothing left after the strip is not written
TarEntry(entry, destAbs, strip) ==
    LET parts == Split(entry, {"/"})
        rest == JoinSlash(SubSeq(parts, strip + 1, Len(parts)))
    IN IF sanitizeArchiveEntry(entry).err \/ sanitizeArchiveEntry(entry).v = <<>>
       THEN <<>>
       ELSE IF Len(parts) < strip \/ KeepNamed(Split(rest, {"/"})) = <<>> THEN <<>>
       ELSE PathJoin(destAbs, rest)

isZip(relArchive) == EndsWith(ToLowerCase(relArchive), ZipSuffix)
isTarGz(relArchive) ==
    \/ EndsWith(ToLowerCase(relArchive), <<".", "t", "a", "r", ".", "g", "z">>)
    \/ EndsWith(ToLowerCase(relArchive), <<".", "t", "g", "z">>)

\* handleUnarchive on an archive of server s that exists, from destRel on:
\* the destination, whether the root was flattened and the paths written
handleUnarchive(relArchive, destination, entries) ==
    LET archiveBaseName == deriveArchiveBase(PathBasename(relArchive))
        destRel == IF destination # <<>> THEN sanitizeRelative(destination).v
                   ELSE sanitizeRelative(archiveBaseName).v
        destAbs == resolveServerPath(IdS, destRel).v
        flatten == /\ destination # <<>>
                   /\ FlattenCriterion(IF isZip(relArchive) THEN NonEmpty(entries)
                                       ELSE entries, archiveBaseName)
        written == {IF isZip(relArchive)
                    THEN ZipEntry(entries[i], destAbs, flatten, archiveBaseName)
                    ELSE TarEntry(entries[i], destAbs, IF flatten THEN 1 ELSE 0) :
                    i \in 1..Len(entries)} \ {<<>>}
    IN [destAbs |-> destAbs, flattened |-> flatten, written |-> written]

\* the entry names of the archives unpacked
EntryTokens == {<<"t", "/">>, <<"t">>, <<"x">>, <<".", "/">>, DotDot}
EntryNames(n) == {Flatten(ts) : ts \in UNION {[1..k -> EntryTokens] : k \in 1..n}}
MaxEntryTokens == 3
Archives ==
    {<<a>> : a \in EntryNames(MaxEntryTokens)}
        \cup (EntryNames(MaxEntryTokens) \X EntryNames(1))
ArchiveFiles ==
    {<<"t", ".", "z", "i", "p">>, <<"t", ".", "t", "g", "z">>,
     <<"x", ".", "Z", "I", "P">>}
Destinations == {<<>>, <<"d">>}

\* one unarchive request is served
Unarchive(relArchive, destination, entries) ==
    /\ calc = NoCalc
    /\ calc' = [op |-> "unarchive",
                in |-> [relArchive |-> relArchive, destination |-> destination,
                        entries |-> entries],
                out |-> handleUnarchive(relArchive, destination, entries)]
    /\ UNCHANGED calcRest

MaxOutput == 3  \* bytes a container writes to its log

\* the bytes of the output: a letter, the line ends, and the two bytes of a
\* two-byte UTF-8 character
LogBytes == {"a", "\n", "\r", "c3", "a9"}
Outputs == UNION {[1..n -> LogBytes] : n \in 1..MaxOutput}

\* chunk.toString('utf8'): a byte of the two-byte character without its
\* other half is decoded to the replacement character
RECURSIVE toUtf8String(_)
toUtf8String(chunk) ==
    IF chunk = <<>> THEN <<>>
    ELSE IF chunk[1] = "c3" /\ Len(chunk) >= 2 /\ chunk[2] = "a9"
    THEN <<"e'">> \o toUtf8String(SubSeq(chunk, 3, Len(chunk)))
    ELSE <<IF chunk[1] \in {"c3", "a9"} THEN "?" ELSE chunk[1]>>
         \o toUtf8String(Tail(chunk))

\* text.split(/\r?\n/)
RECURSIVE SplitLinesAcc(_, _, _)
SplitLinesAcc(text, cur, acc) ==
    IF text = <<>> THEN Append(acc, cur)
    ELSE SplitLinesAcc(Tail(text),
             IF text[1] = "\n" THEN <<>> ELSE Append(cur, text[1]),
             IF text[1] # "\n" THEN acc
             ELSE IF cur # <<>> /\ cur[Len(cur)] = "\r"
             THEN Append(acc, SubSeq(cur, 1, Len(cur) - 1))
             ELSE Append(acc, cur))

SplitLines(text) == SplitLinesAcc(text, <<>>, <<>>)

\* handleChunk: the lines onLine is called with for one chunk
handleChunk(chunk) == NonEmpty(SplitLines(toUtf8String(chunk)))

\* streamDockerLogs: the container has written output, none of it read yet
StreamLogs(output) ==
    /\ calc = NoCalc
    /\ calc' = [op |-> "logs", in |-> [output |-> output, rest |-> output],
                out |-> <<>>]
    /\ UNCHANGED calcRest

\* logStream.on('data', handleChunk): the next n bytes arrive as one chunk
DataArrives(n) ==
    /\ calc.op = "logs"
    /\ n \in 1..Len(calc.in.rest)
    /\ calc' = [calc EXCEPT
                  !.in.rest = SubSeq(@, n + 1, Len(@)),
                  !.out = @ \o handleChunk(SubSeq(calc.in.rest, 1, n))]
    /\ UNCHANGED calcRest

\* the call has returned
Returns ==
    /\ calc # NoCalc
    /\ calc' = NoCalc
    /\ UNCHANGED calcRest

(* ---------------------------------------------------------------------- *)
(* Specifications                                                           *)
(* ---------------------------------------------------------------------- *)

\* the ids the panel creates servers for in the lifecycle engine
LifeIds == {IdS}

NoRequests ==
    /\ fmReq = NoRequest /\ fmPhase = "idle" /\ fmRes = NoResp /\ sftp = SftpIdle
    /\ http = NoHttp /\ live = NoLive
    /\ ses = NoSession /\ ticks = {} /\ streams = {}
    /\ ssh = SshIdle /\ calc = NoCalc

\* the agent after start-up with an empty database
Init ==
    /\ servers = <<>>
    /\ inst = <<>>
    /\ dirs = [id \in ServerIds |-> FALSE]
    /\ rt = <<>>
    /\ tasks = EmptyBag
    /\ waits = {}
    /\ bg = {}
    /\ last = Quiet
    /\ hist = [id \in ServerIds |-> "fresh"]
    /\ NoRequests
    /\ traced = FALSE
    /\ boot = BootIdle

Next ==
    \/ \E id \in LifeIds : CreateServer(id)
    \/ \E id \in LifeIds : DeleteServer(id)
    \/ \E id \in LifeIds, action \in Actions : SendActionServer(id, action)
    \/ \E t \in InFlight : CreateMkdir(t)
    \/ \E t \in InFlight : StartRmOld(t)
    \/ \E t \in InFlight : StartMkdir(t)
    \/ \E t \in InFlight : StartCreate(t)
    \/ \E t \in InFlight : StartContainer(t)
    \/ \E t \in InFlight : StartPoll(t)
    \/ \E t \in InFlight : StartAttach(t)
    \/ \E t \in InFlight : StartCatchRm(t)
    \/ \E t \in InFlight : SendReattach(t)
    \/ \E t \in InFlight : KillDone(t)
    \/ \E id \in LifeIds : GetStatusCall(id)
    \/ \E t \in InFlight : GetStatusReturn(t)
    \/ \E c \in Containers : ContainerExit(c)
    \/ \E i \in Instances, c \in Containers : WaitSettles(i, c)
    \/ \E c \in Containers : BgKill(c)
    \/ \E c \in Containers : BgRemove(c)
    \/ \E id \in LifeIds : BgRm(id)

\* the lifecycle engine
Spec == Init /\ [][Next]_vars

\* the agent once CreateServer has returned for both ids, nothing started
InitCreated ==
    /\ servers = <<1, 2>>
    /\ inst = <<NewServer(IdS), NewServer(IdSS)>>
    /\ dirs = [id \in ServerIds |-> TRUE]
    /\ rt = <<>>
    /\ tasks = EmptyBag
    /\ waits = {}
    /\ bg = {}
    /\ last = Quiet
    /\ hist = [id \in ServerIds |-> "created"]
    /\ NoRequests
    /\ traced = FALSE
    /\ boot = BootIdle

NextFm ==
    \/ /\ fmPhase = "idle"
       /\ \E op \in FmOps : \E body \in Bodies(op), valid \in BOOLEAN :
             FmRequest(op, body, valid)
    \/ FmPermission
    \/ FmReply

\* the file manager serving requests for the two servers
SpecFm == InitCreated /\ [][NextFm]_vars

\* one request at a time is read from the channel and answered
Listening == sftp = SftpIdle

NextSftp ==
    \/ Listening /\ \E sid \in ServerIds, p \in SftpPaths : SftpRealpath(sid, p)
    \/ Listening /\ \E sid \in ServerIds, p \in SftpPaths : SftpStat(sid, p)
    \/ Listening /\ \E sid \in ServerIds, p \in SftpPaths : SftpLstat(sid, p)
    \/ Listening /\ \E sid \in ServerIds, p \in SftpPaths : SftpOpendir(sid, p)
    \/ Listening /\ \E sid \in ServerIds, p \in SftpPaths : SftpOpen(sid, p)
    \/ Listening /\ \E sid \in ServerIds, p \in SftpPaths : SftpRemove(sid, p)
    \/ Listening /\ \E sid \in ServerIds, p \in SftpPaths : SftpMkdir(sid, p)
    \/ Listening /\ \E sid \in ServerIds, p \in SftpPaths : SftpRmdir(sid, p)
    \/ Listening /\ \E sid \in ServerIds, p \in SftpPaths, q \in SftpTargets :
                       SftpRename(sid, p, q)
    \/ SftpSent

\* SFTP sessions logged in to the two servers
SpecSftp == InitCreated /\ [][NextSftp]_vars

\* the rows of the servers table and the containers in the runtime when the
\* agent process starts: CreateServer inserts a row for every request, and the
\* containers outlive the agent
BootRows0 == UNION {[1..n -> ServerIds] : n \in 0..MaxInst}
BootStates == {"running", "exited"}
BootRuntimes ==
    {<<>>}
    \cup {<<[name |-> id, state |-> st]>> : id \in ServerIds, st \in BootStates}
    \cup {<<[name |-> IdS, state |-> a], [name |-> IdSS, state |-> b]>> :
             a \in BootStates, b \in BootStates}

\* the agent process starts over an existing table and runtime
InitBoot ==
    /\ servers = <<>>
    /\ inst = <<>>
    /\ dirs = [id \in ServerIds |-> TRUE]
    /\ rt \in BootRuntimes
    /\ tasks = EmptyBag
    /\ waits = {}
    /\ bg = {}
    /\ last = Quiet
    /\ hist = [id \in ServerIds |-> "created"]
    /\ NoRequests
    /\ traced = TRUE
    /\ boot \in {[BootIdle EXCEPT !.pc = "getAll", !.rows = rows] : rows \in BootRows0}

\* a step the agent takes by itself: a settled promise is continued
Internal ==
    \/ BootGetAll
    \/ BootList
    \/ BootInspect
    \/ BootReattach
    \/ \E t \in InFlight :
          \/ StartRmOld(t) \/ StartMkdir(t) \/ StartCreate(t) \/ StartContainer(t)
          \/ StartPoll(t) \/ StartAttach(t) \/ StartCatchRm(t)
          \/ SendReattach(t) \/ KillDone(t) \/ GetStatusReturn(t)
    \/ \E i \in Instances, c \in Containers : WaitSettles(i, c)

NextBoot ==
    \/ BootGetAll
    \/ BootList
    \/ BootInspect
    \/ BootReattach
    \/ \E id \in LifeIds, action \in Actions : SendActionServer(id, action)
    \/ \E t \in InFlight : StartRmOld(t)
    \/ \E t \in InFlight : StartMkdir(t)
    \/ \E t \in InFlight : StartCreate(t)
    \/ \E t \in InFlight : StartContainer(t)
    \/ \E t \in InFlight : StartPoll(t)
    \/ \E t \in InFlight : StartAttach(t)
    \/ \E t \in InFlight : StartCatchRm(t)
    \/ \E t \in InFlight : SendReattach(t)
    \/ \E t \in InFlight : KillDone(t)
    \/ \E id \in LifeIds : GetStatusCall(id)
    \/ \E t \in InFlight : GetStatusReturn(t)
    \/ \E c \in Containers : ContainerExit(c)
    \/ \E i \in Instances, c \in Containers : WaitSettles(i, c)

\* the agent from process start on; every settled promise is continued
SpecBoot == InitBoot /\ [][NextBoot]_vars /\ WF_vars(Internal)

NextAuth ==
    \/ \E ep \in ControlEndpoints, token \in BodyTokens, sid \in BOOLEAN,
          uid \in BOOLEAN, found \in BOOLEAN, helper \in HelperOutcomes :
          HttpRequest(ep, token, sid, uid, found, helper)
    \/ \E found \in BOOLEAN, helper \in HelperOutcomes :
          HttpRequest("sftp", "", FALSE, FALSE, found, helper)
    \/ \E sid \in BOOLEAN, uid \in BOOLEAN, found \in BOOLEAN,
          helper \in HelperOutcomes :
          HttpRequest("console", "", sid, uid, found, helper)

\* the control requests and SFTP logins, one after the other
SpecAuth == InitCreated /\ [][NextAuth]_vars

NextLive ==
    \/ \E l \in Listeners : addLiveListener(l)
    \/ \E l \in Listeners : Unsubscribe(l)
    \/ ClearListeners
    \/ \E throwers \in SUBSET Listeners : emitLive(throwers)

\* the live events of one instance and their listeners
SpecLive == InitCreated /\ [][NextLive]_vars

\* the agent with one server created and nothing started
InitConsole ==
    /\ servers = <<1>>
    /\ inst = <<NewServer(IdS)>>
    /\ dirs = [id \in ServerIds |-> TRUE]
    /\ rt = <<>>
    /\ tasks = EmptyBag
    /\ waits = {}
    /\ bg = {}
    /\ last = Quiet
    /\ hist = [id \in ServerIds |-> "created"]
    /\ NoRequests
    /\ traced = FALSE
    /\ boot = BootIdle

\* the promises and events of the session that settle by themselves
SessionSettles ==
    \/ \E helper \in HelperOutcomes : ConsolePermission(helper)
    \/ \E f \in ticks : ConsoleInspected(f) \/ ConsoleTty(f)
    \/ \E f \in ticks, ok \in BOOLEAN : ConsoleLogs(f, ok)
    \/ CloseEvent

\* the promises of start() and of container.wait() that settle by themselves
EngineSettles ==
    \/ \E t \in InFlight :
          \/ StartRmOld(t) \/ StartMkdir(t) \/ StartCreate(t) \/ StartContainer(t)
          \/ StartPoll(t) \/ StartAttach(t) \/ StartCatchRm(t)
    \/ \E i \in Instances, c \in Containers : WaitSettles(i, c)

\* the steps of the session that send no more than status and error frames
NextSession ==
    \/ \E hasIds \in BOOLEAN, id \in ServerIds : ConsoleConnect(hasIds, id)
    \/ \E helper \in HelperOutcomes : ConsolePermission(helper)
    \/ \E f \in ticks : ConsoleInspected(f)
    \/ \E f \in ticks : ConsoleTty(f)
    \/ \E f \in ticks, ok \in BOOLEAN : ConsoleLogs(f, ok)
    \/ ConsoleTick
    \/ Heartbeat
    \/ Pong
    \/ ClientClose
    \/ CloseEvent

\* the panel starts the server again and again, one call at a time
NextConsole ==
    \/ NextSession
    \/ tasks = EmptyBag /\ \E id \in LifeIds : SendActionServer(id, "start")
    \/ \E t \in InFlight : StartRmOld(t)
    \/ \E t \in InFlight : StartMkdir(t)
    \/ \E t \in InFlight : StartCreate(t)
    \/ \E t \in InFlight : StartContainer(t)
    \/ \E t \in InFlight : StartPoll(t)
    \/ \E t \in InFlight : StartAttach(t)
    \/ \E t \in InFlight : StartCatchRm(t)
    \/ \E c \in Containers : ContainerExit(c)
    \/ \E i \in Instances, c \in Containers : WaitSettles(i, c)

\* one console session on a server that is started, exits and is started
\* again; armed timers fire and settled promises are continued
SpecConsole ==
    /\ InitConsole /\ [][NextConsole]_vars
    /\ WF_vars(ConsoleTick) /\ WF_vars(Heartbeat)
    /\ WF_vars(SessionSettles) /\ WF_vars(EngineSettles)

\* the agent with one server started and attached
InitStarted ==
    /\ servers = <<1>>
    /\ inst = <<[NewServer(IdS) EXCEPT !.container = 1, !.running = TRUE,
                                       !.startedAt = "now", !.stdinStream = 1]>>
    /\ dirs = [id \in ServerIds |-> TRUE]
    /\ rt = <<[name |-> IdS, state |-> "running"]>>
    /\ tasks = EmptyBag
    /\ waits = {<<1, 1>>}
    /\ bg = {}
    /\ last = Quiet
    /\ hist = [id \in ServerIds |-> "created"]
    /\ NoRequests
    /\ traced = FALSE
    /\ boot = BootIdle

NextFrames ==
    \/ NextSession
    \/ \E category \in Categories : ConsoleEvent(category)
    \/ \E x \in streams : LogLine(x)
    \/ \E msg \in Messages, ok \in BOOLEAN : ConsoleMessage(msg, ok)
    \/ \E t \in InFlight : SendReattach(t)
    \/ \E c \in Containers : ContainerExit(c)
    \/ \E i \in Instances, c \in Containers : WaitSettles(i, c)

\* one console session on a started server: the frames it sends for the live
\* events and the log lines, and the commands it takes
SpecFrames == InitStarted /\ [][NextFrames]_vars

\* the registry a login is resolved against: at most two instances
InitLogin ==
    /\ \E reg \in LoginRegistries :
          /\ servers = [k \in 1..Len(reg) |-> k]
          /\ inst = [k \in 1..Len(reg) |-> NewServer(reg[k])]
    /\ dirs = [id \in ServerIds |-> TRUE]
    /\ rt = <<>>
    /\ tasks = EmptyBag
    /\ waits = {}
    /\ bg = {}
    /\ last = Quiet
    /\ hist = [id \in ServerIds |-> "created"]
    /\ NoRequests
    /\ traced = FALSE
    /\ boot = BootIdle

NextLogin ==
    \/ \E method \in Methods, username \in Usernames, password \in Passwords :
          Authentication(1, method, username, password)
    \/ \E helper \in HelperOutcomes : VerifySettles(1, helper)
    \/ Ready(1)
    \/ Disconnect(1)

\* one SSH connection trying to log in
SpecLogin == InitLogin /\ [][NextLogin]_vars

\* the login names of the two clients, one for each server
UserOfS == <<"u", "_", "s">>
UserOfSS == <<"u", "_", "s", "s">>

NextHandles ==
    \/ Authentication(1, "password", UserOfS, "p")
    \/ Authentication(2, "password", UserOfSS, "p")
    \/ \E c \in Clients, helper \in {"true", "false"} : VerifySettles(c, helper)
    \/ \E c \in Clients : Ready(c)
    \/ \E c \in Clients : Disconnect(c)
    \/ \E c \in Clients, key \in HandleKeys, ok \in BOOLEAN : OpenHandle(c, key, ok)
    \/ \E c \in Clients, key \in HandleKeys, ok \in BOOLEAN : OpendirHandle(c, key, ok)
    \/ \E c \in Clients, key \in HandleKeys, ok \in BOOLEAN : Read(c, key, ok)
    \/ \E c \in Clients, key \in HandleKeys, ok \in BOOLEAN : Write(c, key, ok)
    \/ \E c \in Clients, key \in HandleKeys, ok \in BOOLEAN : Fstat(c, key, ok)
    \/ \E c \in Clients, key \in HandleKeys : Readdir(c, key)
    \/ \E c \in Clients, key \in HandleKeys : Close(c, key)

\* two SFTP clients and the handle tables they share
SpecHandles == InitCreated /\ [][NextHandles]_vars


NextUnarchive ==
    \/ \E relArchive \in ArchiveFiles, destination \in Destinations,
          entries \in Archives : Unarchive(relArchive, destination, entries)
    \/ Returns

\* unarchive requests on archives of server s
SpecUnarchive == InitCreated /\ [][NextUnarchive]_vars

NextLogs ==
    \/ \E output \in Outputs : StreamLogs(output)
    \/ \E n \in 1..MaxOutput : DataArrives(n)
    \/ Returns

\* a follow-logs stream of a container with a TTY
SpecLogs == InitCreated /\ [][NextLogs]_vars

(* ---------------------------------------------------------------------- *)
(* Properties                                                               *)
(* ---------------------------------------------------------------------- *)

\* a call that is one of start, stop, restart (stop or kill followed by start)
\* or reattach, in progress
LifecycleCall(t) ==
    t.op \in {"start", "stop"} \/ t.next = "start" \/ t.pc = "reattach"

\* C1: for a single instance, start, stop, restart and reattach are serialized:
\* in no reachable state are two of these operations in progress on the same
\* instance at once.
C1_Serialized ==
    \A i \in Instances :
        BagCardinality([t \in {u \in InFlight : u.i = i /\ LifecycleCall(u)}
                           |-> tasks[t]]) <= 1

\* C2: for every instance, in every reachable state, startedAt is non-null if
\* and only if running is true.
C2_StartedAtIffRunning ==
    \A i \in Instances : (inst[i].startedAt # None) <=> inst[i].running

\* C3: immediately after getStatus returns for an instance, its running flag is
\* true if and only if the inspect status it saw is "running", and it returns
\* "running" in exactly that case; when inspect fails or there is no handle it
\* returns "stopped", running is false and the handle is dropped.
C3_StatusSynchronized ==
    last.op = "getStatus" =>
        /\ inst[last.i].running <=> (last.status = "running")
        /\ last.ret = (IF last.status = "running" THEN "running" ELSE "stopped")
        /\ last.status \in {"fail", "nohandle"} => inst[last.i].container = Null

\* getStatus has just returned after a failed inspect of a container that
\* exists in the runtime
C3_Witness ==
    /\ last.op = "getStatus"
    /\ last.status = "fail"
    /\ \E c \in Containers : rt[c].state = "running"
    /\ ~inst[last.i].running
    /\ inst[last.i].container = Null

\* C4: for every server id and in every reachable state, the sandbox directory
\* exists if and only if the registry holds an entry for the id.
C4_DirIffEntry ==
    \A id \in ServerIds : dirs[id] <=> (getServer(id) # Null)

\* C5: for every file manager operation and every path field (path, from, to,
\* each element of paths[]), the host path the operation reads or writes is the
\* sandbox root of body.serverId or a descendant of it.
C5_InsideSandbox ==
    fmPhase = "done" =>
        \A t \in fmRes.touched :
            t.field \in {"path", "from", "to", "paths"}
                => IsInside(t.abs, SandboxRoot(fmReq.body.serverId))

\* C6: for every SFTP request of an authenticated session, the host path touched
\* is the sandbox root of the session or a descendant of it.
C6_SftpInsideSandbox ==
    \A abs \in sftp.touched : IsInside(abs, SandboxRoot(sftp.sid))

\* C7: a mass archive request creates its zip file directly under the sandbox
\* root of the server, for every archiveName.
C7_ZipUnderRoot ==
    (fmPhase = "done" /\ fmReq.op = "mass" /\ fmReq.body.action = "archive") =>
        \A k \in 1..Len(fmRes.effects) :
            fmRes.effects[k].k = "write"
                => Segs(PathDirname(fmRes.effects[k].a))
                      = Segs(SandboxRoot(fmReq.body.serverId))

\* C8: a file manager request with a path that violates the sandbox boundary is
\* answered with HTTP 403.
C8_EscapeIs403 ==
    (fmPhase = "done" /\ fmRes.rejected) => fmRes.status = 403

\* C9: after delete has been performed for an instance, and once the directory
\* removal it started has ended, the sandbox directory does not exist and the
\* registry has no entry for the id, whatever was issued before or is pending.
C9_DeletedIsGone ==
    \A id \in LifeIds :
        (hist[id] = "deleted" /\ Bg("rm", Null, id) \notin bg)
            => (~dirs[id] /\ getServer(id) = Null)

\* C10: once the second create of create(id); delete(id); create(id) has
\* returned, the registry holds an entry for id and its sandbox directory exists
\* and keeps existing.
C10_RecreateKeeps ==
    \A id \in LifeIds :
        hist[id] = "recreated" => (getServer(id) # Null /\ dirs[id])

(* ---------------------------------------------------------------------- *)
(* Properties of start()                                                   *)
(* ---------------------------------------------------------------------- *)

\* the step in which the call t of start() ends by rethrowing from its catch
\* block, having failed at one of the awaits named by pcs and stages
StartRaises(t, pcs, stages) ==
    /\ t.op = "start"
    /\ t.pc \in pcs \/ (t.pc = "catchRm" /\ t.next \in stages)
    /\ tasks' = Without(t)

\* C11: when start() fails at the image pull, at the container creation or at
\* the container start, then as the error is rethrown the instance has no
\* handle, running false, startedAt null and no stdin sink, and the container
\* that this start created has been force-removed from the runtime
C11_FailedStartRolledBack ==
    [][\A t \in InFlight :
          StartRaises(t, {"pull", "startC"}, {"create", "startC"}) =>
             /\ inst'[t.i] = NewServer(t.id)
             /\ (t.pc = "startC" \/ t.next = "startC") =>
                    rt'[t.c].state = "removed"]_vars

\* C12: a failure of the attach that follows a successful container start is
\* not fatal: no call of start() is ever in its catch block, force-removing
\* the container, because the attach failed
C12_AttachFailureNotFatal ==
    \A t \in InFlight : ~(t.op = "start" /\ t.pc = "catchRm" /\ t.next = "attach")

\* C13: start() never reaches createContainer while a container with the name
\* of its instance is still in the runtime: every leftover has been removed
C13_NoNameCollision ==
    \A t \in InFlight : (t.op = "start" /\ t.pc = "pull") => ~NameTaken(t.id)

(* ---------------------------------------------------------------------- *)
(* Properties of the exit continuation and of the reconciliation           *)
(* ---------------------------------------------------------------------- *)

Exited(i) ==
    /\ i \in Instances
    /\ inst[i].running
    /\ inst[i].container # Null
    /\ rt[inst[i].container].state = "exited"

Marked(i) ==
    /\ i \in Instances
    /\ ~inst[i].running
    /\ inst[i].startedAt = None
    /\ inst[i].stdinStream = Null

\* C14: whenever the container of a running instance has exited, the instance
\* is eventually marked stopped (running false, startedAt null, no stdin sink)
\* by the exit continuation, however the instance came to its container:
\* start, adoption at process start, or reattach
C14_ExitIsNoticed == \A i \in 1..MaxInst : Exited(i) ~> Marked(i)

\* what reconciliation owes the instance s of id under the listing snap
Reconciled(s, id, snap) ==
    LET c == Found(snap, id)
    IN IF c # Null /\ snap[c] = "running"
       THEN s.running /\ s.container = c /\ s.startedAt # None
       ELSE ~s.running /\ s.startedAt = None

Has(did, x) == \E k \in 1..Len(did) : did[k] = x
Count(did, x) == Cardinality({k \in 1..Len(did) : did[k] = x})
Throws == {"throw Comando invalido", "throw Container inexistente",
           "throw STDIN indisponivel", "throw Falha ao escrever no STDIN"}

\* the step in which SendActionServer calls the method op
Called(op) == last.op = op /\ last.by = "SendActionServer" /\ last.reply = "success"

\* in a step of stop(), every throw of sendCommand is answered by an error
\* event and kill(), and stop() does not raise
StopFallsBack ==
    last.op = "stop" =>
       /\ last.ret # "raised"
       /\ \A k \in 1..Len(last.did) :
             last.did[k] \in Throws =>
                /\ k + 2 <= Len(last.did)
                /\ last.did[k + 1] = "emit error"
                /\ last.did[k + 2] = "call kill"

\* C16: stop emits a status event, then attempts sendCommand(command); whenever
\* the attempt fails it falls back to kill, and stop never raises
C16_StopEmitsSendsFallsBack ==
    /\ Called("stop") => StartsWith(last.did, <<"emit status", "call sendCommand">>)
    /\ StopFallsBack

\* C16, amended: stop on an instance without a container handle returns at once
\* and emits nothing; with a handle it emits a status event, then attempts
\* sendCommand(command); whenever the attempt fails it emits an error event and
\* falls back to kill, and stop never raises
C16_StopWithHandle ==
    /\ Called("stop") =>
          IF last.status = "nohandle"
          THEN last.did = <<>> /\ last.ret = "returned"
          ELSE StartsWith(last.did, <<"emit status", "call sendCommand">>)
    /\ StopFallsBack

\* stop found no sink after the reattach and fell back to kill
C16_Witness ==
    /\ last.op = "stop" /\ last.by = ""
    /\ last.did = <<"throw STDIN indisponivel", "emit error", "call kill",
                    "emit status", "call container.kill">>

C18_KillStoppedNoOp ==
    [][/\ last'.op = "kill" => last'.ret # "raised"
       /\ (last'.op = "kill" /\ last'.by = "SendActionServer"
           /\ last'.status \in {"nohandle", "exited"}) =>
             (last'.did = <<>> /\ inst' = inst /\ rt' = rt)]_vars

\* C19: when a call made for /servers/action fails in the runtime (start) or
\* on stdin (no sink after the reattach, failed write), the handler answers its
\* caller with the error and not with {status: "success"}; the answer is part
\* of the step in which the call raises
C19_FailureReported ==
    (/\ last.ret = "raised"
     /\ \/ last.op = "start"
        \/ Has(last.did, "throw STDIN indisponivel")
        \/ Has(last.did, "throw Falha ao escrever no STDIN"))
       => last.reply = "error"

\* C20: the answer of the /servers/status handler carries, as serverStatus, the
\* string running or stopped that getStatus() resolved to for the request
C20_StatusAnswered ==
    (last.by = "GetServerStatus" /\ last.reply # "") =>
       (last.reply \in {"running", "stopped"} /\ last.reply = last.ret)

\* C21: every control endpoint answers a request without body.token with 400
\* and a request whose token differs from the configured one with 403, and in
\* neither case goes on to the operation
C21_TokenChecked ==
    http.ep \in ControlEndpoints =>
       /\ http.token = "missing" => (http.code = "400" /\ ~http.ran)
       /\ http.token = "wrong" => (http.code = "403" /\ ~http.ran)

\* C22: when the remote helper is unreachable or answers with an error, the
\* predicate that asked it is false, and the create, delete, action, status,
\* usage or file-manager request, the console connection or the SFTP login
\* that depends on it is refused without the operation being performed
C22_HelperDownDenies ==
    (http.asked /\ http.helper \in {"error", "unreachable"}) =>
       /\ ~HelperSays(http.helper)
       /\ ~http.ran
       /\ http.code \in {"403", "reject", "close"}
C22_Witness ==
    /\ http.ep = "action" /\ http.token = "right" /\ http.found
    /\ http.asked /\ http.helper = "unreachable" /\ http.code = "403"

\* the events numbered lo to hi, in order
Run(lo, hi) == [k \in 1..(hi - lo + 1) |-> lo + k - 1]

\* C28: an emit calls every listener registered at the time of the emit, also
\* when listeners called before it throw, and every listener is handed the
\* events in the order of their emission
C28_EmitReachesAll ==
    [][/\ live'.n = live.n + 1 =>
             \A l \in Listeners :
                Registered(l) =>
                   /\ live'.got[l] # <<>>
                   /\ live'.got[l][Len(live'.got[l])] = live'.n
       /\ \A l \in Listeners : \A j, k \in 1..Len(live'.got[l]) :
             j < k => live'.got[l][j] < live'.got[l][k]]_vars
C28_Witness ==
    /\ live.subs = <<"f", "g">> /\ live.threw = {"f"}
    /\ live.n = 2 /\ live.got["g"] = <<1, 2>> /\ live.got["f"] = <<1, 2>>

\* C29: a listener is handed exactly the events emitted after its
\* addLiveListener and before its unsubscription or the delete of the
\* instance: nothing emitted earlier is replayed, nothing arrives afterwards
C29_ExactlyWhileSubscribed ==
    \A l \in Listeners :
       IF live.since[l] = Null THEN live.got[l] = <<>>
       ELSE live.got[l] = Run(live.since[l],
                              IF live.till[l] = Null THEN live.n
                              ELSE live.till[l] - 1)
C29_Witness ==
    /\ live.n = 3 /\ live.since["f"] = 2 /\ live.till["f"] = 3
    /\ live.got["f"] = <<2>>
    /\ live.since["g"] = 1 /\ live.till["g"] = 3 /\ live.subs = <<>>

\* the query carried both ids, the instance was found and the helper granted
Granted == ses.ids /\ ses.found /\ ses.helper = "true"

\* the session holds a subscription, a timer, a stream or a call for one, or
\* has just forwarded a command
Engaged ==
    \/ ses.listening \/ ses.liveUnsub
    \/ ses.statusMonitor \/ ses.hb
    \/ ses.streamStarted \/ ses.logStreamCleanup # Null
    \/ streams # {} \/ ticks # {}
    \/ ses.fwd # <<>>

\* C23: the session subscribes to the live events, starts its log stream and
\* its timers and forwards commands only once the query has carried serverId
\* and userUuid, the instance has been found and hasPermission has returned
\* true; otherwise it is refused: one error frame is sent (if the client has
\* not closed the socket already), the socket is closed, and no subscription,
\* timer or stream is left
C23_OnlyGrantedSessions ==
    [][/\ Engaged' => Granted'
       /\ (ses'.pc \notin {"none", "perm"} /\ ~Granted') =>
             (ses'.pc = "refused" /\ ses'.sock = "closed" /\ ~Engaged')
       /\ (ses'.pc = "refused" /\ ses.pc # "refused") =>
             /\ ~Granted'
             /\ ses'.out = IF ses.sock = "closed" THEN <<>> ELSE <<"error">>]_vars
C23_Witness ==
    /\ Granted /\ ses.pc = "open" /\ ses.sock = "open"
    /\ ses.listening /\ ses.statusMonitor /\ ses.hb
    /\ ses.logStreamCleanup # Null /\ streams # {}
    /\ ses.fwd = <<"a">>

\* C30: no frame sent to the console client carries the category internal:
\* a live event of that category is dropped, a live event of any other
\* category is sent on as a frame of its category
C30_InternalNeverSent ==
    /\ \A k \in 1..Len(ses.out) : ses.out[k] # "internal"
    /\ (ses.ev # "" /\ ses.listening /\ ses.sock = "open") =>
          ses.out = IF ses.ev = "internal" THEN <<>> ELSE <<ses.ev>>
C30_Witness ==
    ses.ev = "internal" /\ ses.listening /\ ses.sock = "open" /\ ses.out = <<>>

\* C27: the heartbeat terminates the session at the first 15 s tick at which
\* no pong has arrived since the ping of the tick before (the timers and the
\* subscription are released and the socket terminated), and a tick that
\* finds the last ping answered, or no ping sent yet, pings and leaves the
\* session as it is
C27_HeartbeatTerminates ==
    [][Heartbeat =>
         IF ses.unanswered
         THEN /\ ~ses'.hb /\ ~ses'.statusMonitor /\ ~ses'.listening
              /\ ses'.sock \in {"closing", "closed"}
         ELSE /\ ses'.hb /\ ses'.unanswered
              /\ ses'.sock = ses.sock
              /\ ses'.statusMonitor = ses.statusMonitor
              /\ ses'.listening = ses.listening]_vars
C27_Witness ==
    ses.pc = "open" /\ ses.sock = "closing" /\ ~ses.hb /\ ses.unanswered

\* the streams that follow the output of a running container
ActiveStreams == {x \in streams : rt[x.c].state = "running"}

\* C24: whatever the interleaving of the first beginStream, the supervisor
\* ticks and the close of the socket, the session has at most one active
\* follow-logs stream
C24_OneStream == Cardinality(ActiveStreams) <= 1

\* the session is open and its supervisor armed
Watching == ses.pc = "open" /\ ses.sock = "open" /\ ses.statusMonitor

\* container c is the running container of the session's instance
Current(c) ==
    /\ c \in Containers /\ ses.i # Null
    /\ inst[ses.i].container = c /\ rt[c].state = "running"

\* C25: once the instance runs on a new container while the session is open,
\* the session eventually has a log stream on that container (unless the
\* session ends or the container stops first), also when the supervisor has
\* not seen the instance stopped in between or an attempt to open the stream
\* has failed
C25_StreamFollowsRestart ==
    \A c \in 1..MaxCont :
       (Watching /\ Current(c)) ~>
          ((\E x \in streams : x.c = c) \/ ~Watching \/ ~Current(c))

\* the timers are cleared, the listener removed and no stream is active
Released ==
    /\ ~ses.statusMonitor /\ ~ses.hb
    /\ ~ses.listening
    /\ ActiveStreams = {}

\* C26: after the socket has closed, whenever during the setup or a pending
\* beginStream that happens, the supervisor timer, the heartbeat timer, the
\* live subscription and the log stream are released and stay so
C26_ReleasedAfterClose == (ses.sock = "closed") ~> []Released

(* ---------------------------------------------------------------------- *)
(* Properties of the SFTP daemon                                            *)
(* ---------------------------------------------------------------------- *)

\* the position of the last "_" of a login name (0: there is none)
LastUnderscore(u) ==
    IF \E i \in 1..Len(u) : u[i] = "_"
    THEN CHOOSE i \in 1..Len(u) :
            u[i] = "_" /\ \A j \in (i + 1)..Len(u) : u[j] # "_"
    ELSE 0

UserPart(u) == SubSeq(u, 1, LastUnderscore(u) - 1)
IdPart(u) == SubSeq(u, LastUnderscore(u) + 1, Len(u))

\* the instance with exactly that id, else the only one whose id starts with
\* it, else none
Resolved(id) ==
    IF getServer(id) # Null THEN getServer(id)
    ELSE IF \E k \in 1..Len(servers) :
               /\ StartsWith(inst[servers[k]].id, id)
               /\ \A j \in 1..Len(servers) :
                     StartsWith(inst[servers[j]].id, id) => j = k
    THEN servers[CHOOSE k \in 1..Len(servers) : StartsWith(inst[servers[k]].id, id)]
    ELSE Null

MustReject(u) ==
    LastUnderscore(u) = 0 \/ IdPart(u) = <<>> \/ Resolved(IdPart(u)) = Null

\* C31: a password login splits the name on its last "_" into the user name
\* and the server id, resolves the id exactly or by unique prefix, asks the
\* helper about that user and that instance, and is rejected without asking
\* when there is no "_", nothing after it, no match or several matches
C31_LoginResolution ==
    \A c \in Clients :
        LET cn == ssh.conn[c]
        IN cn.att.method = "password" =>
              /\ MustReject(cn.att.username) =>
                    cn.call = NoCall /\ cn.answer = "reject"
              /\ cn.call # NoCall =>
                    /\ cn.call.user = UserPart(cn.att.username)
                    /\ cn.call.obj = Resolved(IdPart(cn.att.username))

\* C32: a connection is accepted only when VerifySFTP said true for the user
\* name, the password and the instance of the attempt that was accepted, and
\* its root directory is the sandbox of that instance, whatever serverObj an
\* earlier attempt left behind
C32_AcceptedAsVerified ==
    \A c \in Clients :
        LET cn == ssh.conn[c]
            parts == Split(cn.att.username, {"_"})
        IN cn.state \in {"accepted", "ready"} =>
              /\ cn.call.said = "true"
              /\ cn.call.user = usernameBaseOf(parts)
              /\ cn.call.pass = cn.att.password
              /\ cn.call.obj = Lookup(serverIdOf(parts)).obj
              /\ cn.call.obj # Null
              /\ cn.rootDir = SandboxRoot(inst[cn.call.obj].id)

\* accepted for the second instance after a failed attempt at the first
C32_Witness ==
    /\ ssh.conn[1].state = "ready"
    /\ ssh.conn[1].was # Null
    /\ ssh.conn[1].was # ssh.conn[1].serverObj
    /\ ssh.conn[1].serverObj = 2

\* C33: once a client's connection has closed, neither handle table holds a
\* handle that client opened
C33_HandlesReleased ==
    \A c \in Clients :
        ssh.conn[c].state = "closed" =>
            \A e \in ssh.fileHandles \cup ssh.dirHandles : e.owner # c

\* C40: READ, WRITE, FSTAT, READDIR and CLOSE find a handle only for a
\* session of the server the handle was opened in; a client logged in to
\* another server gets FAILURE
C40_OwnHandlesOnly ==
    (/\ ssh.reply.op \in {"READ", "WRITE", "FSTAT", "READDIR", "CLOSE"}
     /\ ssh.reply.status # "FAILURE") =>
        /\ ssh.reply.entry.owner = ssh.reply.c
        /\ ssh.reply.entry.root = ssh.conn[ssh.reply.c].rootDir

(* ---------------------------------------------------------------------- *)
(* Properties of rename, unarchive and the log multiplexer                  *)
(* ---------------------------------------------------------------------- *)

\* C39: whatever path and newName a rename request is accepted with, the
\* entry it renames is not the sandbox root and the name it is given lies
\* inside BASE_SERVER_PATH/serverId
C39_RenameStaysInside ==
    (fmPhase = "done" /\ fmReq.op = "rename") =>
        \A i \in 1..Len(fmRes.effects) :
            fmRes.effects[i].k = "rename" =>
                /\ Segs(fmRes.effects[i].a) # Segs(SandboxRoot(fmReq.body.serverId))
                /\ IsInside(fmRes.effects[i].b, SandboxRoot(fmReq.body.serverId))

\* the components of p below the destination directory
Below(p, destAbs) == SubSeq(Segs(p), Len(Segs(destAbs)) + 1, Len(Segs(p)))

\* the named components of an entry
Comps(entry) == KeepNamed(Split(entry, {"/"}))

\* a destination was given and every entry is the directory named as the
\* archive or lies in it
SingleTop ==
    /\ calc.op = "unarchive"
    /\ calc.in.destination # <<>>
    /\ \A i \in 1..Len(calc.in.entries) :
          \/ calc.in.entries[i] = deriveArchiveBase(calc.in.relArchive)
          \/ StartsWith(calc.in.entries[i],
                        deriveArchiveBase(calc.in.relArchive) \o <<"/">>)

\* C34 as stated: such an archive is reported flattened and nothing is
\* written to a path with T as a component below the destination
C34_NoTopBelowDestination ==
    SingleTop =>
        /\ calc.out.flattened
        /\ \A p \in calc.out.written :
              ~Some(Below(p, calc.out.destAbs), deriveArchiveBase(calc.in.relArchive))

\* C34: such an archive is reported flattened and every entry is written
\* below the destination under its own path less the one leading T, so T
\* appears below the destination only where the archive nests a T inside T
C34_FlattenedOnce ==
    SingleTop =>
        /\ calc.out.flattened
        /\ {Below(p, calc.out.destAbs) : p \in calc.out.written}
             = {Tail(Comps(calc.in.entries[i])) :
                   i \in {j \in 1..Len(calc.in.entries) :
                             /\ ~Some(Comps(calc.in.entries[j]), DotDot)
                             /\ Len(Comps(calc.in.entries[j])) >= 2}}

\* an archive t.zip holding t/t/x is unpacked to a destination
C34_Witness ==
    /\ SingleTop
    /\ calc.out.flattened
    /\ \E p \in calc.out.written :
          Some(Below(p, calc.out.destAbs), deriveArchiveBase(calc.in.relArchive))

\* C35: once the whole output has arrived, onLine has been called with the
\* non-empty lines of the output, in order, however the bytes were divided
\* into chunks
C35_LinesWhateverTheChunks ==
    (calc.op = "logs" /\ calc.in.rest = <<>>) =>
        calc.out = NonEmpty(SplitLines(toUtf8String(calc.in.output)))

(* ---------------------------------------------------------------------- *)
(* Properties of the instance across restart, create and delete             *)
(* ---------------------------------------------------------------------- *)

\* C36: the exit continuation registered for a container that has been
\* replaced leaves the run on the newer container as it is: it neither
\* changes running or startedAt nor clears the stdin sink of the new container
C36_StaleExitChangesNothing ==
    [][\A i \in Instances, c \in Containers :
          (/\ <<i, c>> \in waits /\ <<i, c>> \notin waits'
           /\ inst[i].container \notin {Null, c})
              => /\ inst'[i].running = inst[i].running
                 /\ inst'[i].startedAt = inst[i].startedAt
                 /\ inst[i].stdinStream = inst[i].container
                       => inst'[i].stdinStream = inst[i].stdinStream]_vars

\* C38: once delete has been performed for an instance and nothing that was
\* pending on it is left, no container of the instance is running
C38_DeletedLeavesNoContainer ==
    \A id \in LifeIds :
        (/\ hist[id] = "deleted"
         /\ getServer(id) = Null
         /\ \A t \in InFlight : t.id # id
         /\ \A b \in bg : b.id # id)
            => \A c \in Containers : rt[c].name = id => rt[c].state # "running"

\* C37: whatever create and delete requests have been served, no two
\* instances of the registry have the same id
C37_OneInstancePerId ==
    \A j, k \in 1..Len(servers) :
        inst[servers[j]].id = inst[servers[k]].id => j = k

====
